---- MODULE Spec2Model ----
(***************************************************************************)
(* UrbanMobility: the CRS helper, district assignment and the per-district *)
(* indicator aggregators, modelled as call-and-return operations of a      *)
(* library.  A caller picks the arguments of one operation, the operation  *)
(* runs to completion and leaves its outcome (a table or a raised error),  *)
(* and the caller takes the outcome before the next call.                  *)
(*                                                                         *)
(* Text is a sequence of one-character strings, so that strip(), upper()   *)
(* and startswith() are computed.  A geometry is an interval [lo, hi] of   *)
(* raw coordinates (a point has lo = hi); its area is hi - lo in the units *)
(* of the frame its coordinates are written in.                            *)
(***************************************************************************)
EXTENDS Integers, Sequences, FiniteSets, TLC

VARIABLES call, ret, inputs

vars == <<call, ret, inputs>>

(***************************************************************************)
(* Bounds of the enumerated inputs.                                        *)
(***************************************************************************)
MaxTrips == 2
MaxBuildings == 2

(***************************************************************************)
(* Text.                                                                   *)
(***************************************************************************)
EPSG == <<"E", "P", "S", "G", ":">>
epsg == <<"e", "p", "s", "g", ":">>
Code25833 == <<"2", "5", "8", "3", "3">>
Code4326 == <<"4", "3", "2", "6">>
Code99999 == <<"9", "9", "9", "9", "9">>
NoneText == <<"N", "o", "n", "e">>
ProjUtm == <<"+", "p", "r", "o", "j", "=", "u", "t", "m">>

\* str.upper() on one character
UpperChar(c) ==
    CASE c = "e" -> "E" [] c = "p" -> "P" [] c = "s" -> "S" [] c = "g" -> "G"
      [] c = "r" -> "R" [] c = "o" -> "O" [] c = "j" -> "J" [] c = "u" -> "U"
      [] c = "t" -> "T" [] c = "m" -> "M" [] c = "n" -> "N" [] c = "i" -> "I"
      [] OTHER -> c

Upper(s) == [i \in 1..Len(s) |-> UpperChar(s[i])]

RECURSIVE LStrip(_)
LStrip(s) == IF s # <<>> /\ Head(s) = " " THEN LStrip(Tail(s)) ELSE s

RECURSIVE RStrip(_)
RStrip(s) ==
    IF s # <<>> /\ s[Len(s)] = " " THEN RStrip(SubSeq(s, 1, Len(s) - 1)) ELSE s

Strip(s) == RStrip(LStrip(s))

StartsWith(s, p) == Len(s) >= Len(p) /\ SubSeq(s, 1, Len(p)) = p

\* A Python value handed in as target_crs: a str or something else.
PyStr(s) == [kind |-> "str", val |-> s]
PyInt(s) == [kind |-> "int", val |-> s]
IsStr(v) == v.kind = "str"

(***************************************************************************)
(* Numbers of a table column: exact fractions n/d in lowest terms, the     *)
(* missing value NaN and the signed infinities float division yields.      *)
(***************************************************************************)
RECURSIVE GCD(_, _)
GCD(a, b) == IF b = 0 THEN a ELSE GCD(b, a % b)

Abs(x) == IF x < 0 THEN -x ELSE x
Sign(x) == IF x < 0 THEN -1 ELSE IF x > 0 THEN 1 ELSE 0

Frac(n, d) ==
    LET g == GCD(Abs(n), Abs(d))
    IN  [k |-> "num", n |-> Sign(d) * (n \div g), d |-> Abs(d) \div g]

Whole(i) == [k |-> "num", n |-> i, d |-> 1]
NotANumber == [k |-> "nan", n |-> 0, d |-> 1]
Infinity(sign) == [k |-> "inf", n |-> sign, d |-> 1]

FAdd(a, b) ==
    IF a.k = "nan" \/ b.k = "nan" THEN NotANumber
    ELSE IF a.k = "inf" /\ b.k = "inf"
    THEN IF a.n = b.n THEN a ELSE NotANumber
    ELSE IF a.k = "inf" THEN a
    ELSE IF b.k = "inf" THEN b
    ELSE Frac(a.n * b.d + b.n * a.d, a.d * b.d)

FNeg(a) == [a EXCEPT !.n = -@]

FSub(a, b) == FAdd(a, FNeg(b))

FMul(a, b) ==
    IF a.k = "nan" \/ b.k = "nan" THEN NotANumber
    ELSE IF a.k = "inf" \/ b.k = "inf"
    THEN IF a.n = 0 \/ b.n = 0 THEN NotANumber
         ELSE Infinity(Sign(a.n) * Sign(b.n))
    ELSE Frac(a.n * b.n, a.d * b.d)

FDiv(a, b) ==
    IF a.k = "nan" \/ b.k = "nan" THEN NotANumber
    ELSE IF b.k = "inf"
    THEN IF a.k = "inf" THEN NotANumber ELSE Whole(0)
    ELSE IF a.k = "inf"
    THEN Infinity(a.n * (IF b.n < 0 THEN -1 ELSE 1))
    ELSE IF b.n = 0
    THEN IF a.n = 0 THEN NotANumber ELSE Infinity(Sign(a.n))
    ELSE Frac(a.n * b.d, a.d * b.n)

(***************************************************************************)
(* Coordinate reference systems.  A CRS object denotes a projection (code) *)
(* and remembers the text it was built from (srs); str(crs) is that text.  *)
(***************************************************************************)
None == [set |-> FALSE, code |-> <<>>, srs |-> <<>>]
CrsObj(code, srs) == [set |-> TRUE, code |-> code, srs |-> srs]

KnownCodes == {Code25833, Code4326}
Geographic == Code4326

StrCrs(crs) == IF crs = None THEN NoneText ELSE crs.srs

\* The projection engine's reading of a code string: "EPSG:<known code>".
CanParse(text) ==
    /\ StartsWith(Upper(text), EPSG)
    /\ SubSeq(text, Len(EPSG) + 1, Len(text)) \in KnownCodes

FromUserInput(text) ==
    CrsObj(SubSeq(text, Len(EPSG) + 1, Len(text)), text)

\* Metres covered by one coordinate unit of a frame.
Unit(code) == IF code = Geographic THEN 100000 ELSE 1

Transform(from, to, x) == (x * Unit(from)) \div Unit(to)

(***************************************************************************)
(* Outcomes.                                                               *)
(***************************************************************************)
NoTable == [cols |-> {}, crs |-> None, rows |-> <<>>]
Raise(kind, what) == [status |-> kind, what |-> what, gdf |-> NoTable]
Ok(gdf) == [status |-> "ok", what |-> "", gdf |-> gdf]

\* The outcome of a call that returned what GeoDataFrame.to_crs produced.
Reprojected(gdf) == [status |-> "ok", what |-> "to_crs", gdf |-> gdf]

(***************************************************************************)
(* helpers.CRS                                                             *)
(***************************************************************************)
\* Faulty variant: an untagged table is taken to be in EPSG:25833.
set_crs_metric(gdf, text) == [gdf EXCEPT !.crs = FromUserInput(EPSG \o Code25833)]

set_crs(gdf, text) == [gdf EXCEPT !.crs = FromUserInput(text)]

\* Faulty variant: the transform never throws.
to_crs_never_fails(gdf, text) == FALSE

\* GeoDataFrame.to_crs throws when the text names no CRS.
to_crs_fails(gdf, text) == ~CanParse(text)

\* Faulty variant: the table is tagged with the new CRS, its coordinates left alone.
to_crs_retag_only(gdf, text) == [gdf EXCEPT !.crs = FromUserInput(text)]

\* GeoDataFrame.to_crs: the same CRS object is returned as it is, anything
\* else is transformed and tagged with the CRS built from the text.
to_crs(gdf, text) ==
    LET dst == FromUserInput(text)
    IN  IF Upper(gdf.crs.srs) = Upper(text)
        THEN gdf
        ELSE [gdf EXCEPT
                !.crs = dst,
                !.rows = [i \in 1..Len(gdf.rows) |->
                    [gdf.rows[i] EXCEPT
                        !.geometry = [lo |-> Transform(gdf.crs.code, dst.code, @.lo),
                                      hi |-> Transform(gdf.crs.code, dst.code, @.hi)]]]]

\* Faulty variant: the table is handed back as it came.
CRS_unchecked(gdf, target_crs, wgs84_missing) == Ok(gdf)

TargetIsValid(target_crs) ==
    IsStr(target_crs) /\ StartsWith(Upper(Strip(target_crs.val)), EPSG)

\* Faulty variant: only the authority prefix is compared.
AlreadyCorrectPrefixOnly(current, target) ==
    StartsWith(current, EPSG) /\ StartsWith(target, EPSG)

\* Faulty variant: the comparison with the target is never met.
AlreadyCorrectNever(current, target) == FALSE

AlreadyCorrect(current, target) == current = target

CRS(gdf, target_crs, wgs84_missing) ==
    IF "geometry" \notin gdf.cols
    THEN Raise("ValueError", "geometry")
    ELSE IF ~TargetIsValid(target_crs)
    THEN Raise("ValueError", "target_crs")
    ELSE LET target == Upper(Strip(target_crs.val))
         IN  IF gdf.crs = None /\ ~wgs84_missing
             THEN Raise("ValueError", "missing CRS")
             ELSE LET g == IF gdf.crs = None
                           THEN set_crs(gdf, EPSG \o Code4326)
                           ELSE gdf
                      current == Upper(StrCrs(g.crs))
                  IN  IF AlreadyCorrect(current, target)
                      THEN Ok(g)
                      ELSE IF to_crs_fails(g, target)
                      THEN Raise("ValueError", "transform")
                           @@ [names |-> <<current, target>>]
                      ELSE Reprojected(to_crs(g, target))

(***************************************************************************)
(* geopandas.sjoin(left, right, how="left", predicate="within"): one row   *)
(* per (left row, right row containing it) pair in left order, and one row *)
(* with a missing label for a left row no right row contains.  Raw         *)
(* coordinates are compared; the CRS tags are not looked at.               *)
(***************************************************************************)
NaN == "NaN"

Within(a, b) ==
    IF a.lo = a.hi
    THEN b.lo < a.lo /\ a.lo < b.hi
    ELSE b.lo <= a.lo /\ a.hi <= b.hi

\* Faulty variant: an inner join, which drops a left row no right row contains.
JoinRowInner(l, right, label_col) ==
    LET hits == SelectSeq(right, LAMBDA d : Within(l.geometry, d.geometry))
    IN  [j \in 1..Len(hits) |-> l @@ (label_col :> hits[j][label_col])]

\* The rows the join gives for one left row: the left row with the label
\* column of each right row that contains it, or with a missing label.
JoinRow(l, right, label_col) ==
    LET hits == SelectSeq(right, LAMBDA d : Within(l.geometry, d.geometry))
    IN  IF hits = <<>>
        THEN << l @@ (label_col :> NaN) >>
        ELSE [j \in 1..Len(hits) |-> l @@ (label_col :> hits[j][label_col])]

RECURSIVE JoinFrom(_, _, _, _)
JoinFrom(left, right, label_col, i) ==
    IF i > Len(left) THEN <<>>
    ELSE JoinRow(left[i], right, label_col) \o JoinFrom(left, right, label_col, i + 1)

sjoin(left_gdf, right_gdf, label_col) ==
    [left_gdf EXCEPT
        !.cols = @ \cup {label_col},
        !.rows = JoinFrom(left_gdf.rows, right_gdf.rows, label_col, 1)]

(***************************************************************************)
(* data_processing.add_district                                            *)
(***************************************************************************)
NoFrame == [cols |-> {}, rows |-> <<>>]

\* An outcome of add_district: the error or the table, and the operands of
\* the spatial joins that ran.
RaiseDf(kind, what) ==
    [status |-> kind, what |-> what, df |-> NoFrame, joins |-> <<>>, trips |-> NoFrame]
OkDf(df) ==
    [status |-> "ok", what |-> "", df |-> df, joins |-> <<>>, trips |-> df]

\* The CRS of the left and the right operand of the two joins.
Joins(start_gdf, end_gdf, districts_gdf) ==
    << [left |-> start_gdf.crs, right |-> districts_gdf.crs],
       [left |-> end_gdf.crs, right |-> districts_gdf.crs] >>

\* Faulty variant: surplus values are dropped, the rest taken row by row.
LengthMatchesOrLonger(values, df) == Len(values) >= Len(df.rows)

\* trips[col] = values: pandas refuses values of another length.
LengthMatches(values, df) == Len(values) = Len(df.rows)

LabelledTrips(trips_df, start_join, end_join, district_col) ==
    [cols |-> trips_df.cols \cup {"start_district", "end_district"},
     rows |-> [i \in 1..Len(trips_df.rows) |->
                ("start_district" :> start_join.rows[i][district_col])
                @@ ("end_district" :> end_join.rows[i][district_col])
                @@ trips_df.rows[i]]]

\* trips after trips["start_district"] = ... alone.
StartLabelledTrips(trips_df, start_join, district_col) ==
    [cols |-> trips_df.cols \cup {"start_district"},
     rows |-> [i \in 1..Len(trips_df.rows) |->
                ("start_district" :> start_join.rows[i][district_col])
                @@ trips_df.rows[i]]]

\* The joins and the two column assignments, on operands in one CRS; trips
\* is the table the assignments were made in, as they left it.
add_district_labelled(trips_df, s, e, d, district_col) ==
    LET start_join == sjoin(s, d, district_col)
        end_join == sjoin(e, d, district_col)
        out == IF ~LengthMatches(start_join.rows, trips_df)
               THEN [RaiseDf("ValueError", "start_district") EXCEPT
                        !.trips = trips_df]
               ELSE IF ~LengthMatches(end_join.rows, trips_df)
               THEN [RaiseDf("ValueError", "end_district") EXCEPT
                        !.trips = StartLabelledTrips(trips_df, start_join,
                                                     district_col)]
               ELSE OkDf(LabelledTrips(trips_df, start_join, end_join, district_col))
    IN  [out EXCEPT !.joins = Joins(s, e, d)]

\* add_district from the normalisation of the district table on.
add_district_normalised(trips_df, start_gdf, end_gdf, districts_gdf, district_col) ==
    LET d == CRS(districts_gdf, PyStr(StrCrs(districts_gdf.crs)), FALSE)
    IN  IF d.status # "ok" THEN RaiseDf(d.status, d.what)
        ELSE LET s == CRS(start_gdf, PyStr(StrCrs(d.gdf.crs)), FALSE)
             IN  IF s.status # "ok" THEN RaiseDf(s.status, s.what)
             ELSE LET e == CRS(end_gdf, PyStr(StrCrs(d.gdf.crs)), FALSE)
                  IN  IF e.status # "ok" THEN RaiseDf(e.status, e.what)
                      ELSE add_district_labelled(trips_df, s.gdf, e.gdf, d.gdf,
                                                 district_col)

\* Faulty variant: the CRS of the district table is looked at before its columns.
add_district_crs_first(trips_df, start_gdf, end_gdf, districts_gdf, district_col) ==
    IF districts_gdf.crs = None
    THEN RaiseDf("ValueError", "target_crs")
    ELSE IF district_col \notin districts_gdf.cols
    THEN RaiseDf("KeyError", district_col)
    ELSE add_district_normalised(trips_df, start_gdf, end_gdf, districts_gdf,
                                 district_col)

add_district(trips_df, start_gdf, end_gdf, districts_gdf, district_col) ==
    IF district_col \notin districts_gdf.cols
    THEN RaiseDf("KeyError", district_col)
    ELSE add_district_normalised(trips_df, start_gdf, end_gdf, districts_gdf,
                                 district_col)

(***************************************************************************)
(* indicators.mobilityindicators                                           *)
(***************************************************************************)
Area(g) == Whole(g.hi - g.lo)

\* Faulty variant: every group is given the length of the whole table.
groupby_size_of_table(df, col) ==
    LET labels == { df.rows[i][col] : i \in 1..Len(df.rows) } \ {NaN}
    IN  [l \in labels |-> Len(df.rows)]

\* Faulty variant: a row with a missing label is counted in every group.
groupby_size_with_missing(df, col) ==
    LET labels == { df.rows[i][col] : i \in 1..Len(df.rows) } \ {NaN}
    IN  [l \in labels |->
            Cardinality({ i \in 1..Len(df.rows) : df.rows[i][col] \in {l, NaN} })]

\* df.groupby(col).size(): the number of rows per label; rows with a
\* missing label form no group.
groupby_size(df, col) ==
    LET labels == { df.rows[i][col] : i \in 1..Len(df.rows) } \ {NaN}
    IN  [l \in labels |-> Cardinality({ i \in 1..Len(df.rows) : df.rows[i][col] = l })]

\* The value a left join on the index gives a district for a counted column.
Joined(per_district, name) ==
    IF name \in DOMAIN per_district THEN Whole(per_district[name]) ELSE NotANumber

\* Faulty variant: missing values are left missing.
fillna_skipped(v, fill) == v

fillna(v, fill) == IF v.k = "nan" THEN fill ELSE v

\* Faulty variant: the difference taken the other way round.
NetTripsSwapped(trips_started, trips_ended) == FSub(trips_started, trips_ended)

NetTrips(trips_started, trips_ended) == FSub(trips_ended, trips_started)

TotalTrips(trips_started, trips_ended) == FAdd(trips_started, trips_ended)

MobilityRow(d, population_col, district_col, start_per_district, end_per_district) ==
    LET area_km2 == FDiv(Area(d.geometry), Whole(1000000))
        density == FDiv(d[population_col], area_km2)
        area == fillna(area_km2, Whole(0))
        population == fillna(d[population_col], Whole(0))
        trips_started == fillna(Joined(start_per_district, d[district_col]), Whole(0))
        trips_ended == fillna(Joined(end_per_district, d[district_col]), Whole(0))
        net_trips == NetTrips(trips_started, trips_ended)
        total_trips == TotalTrips(trips_started, trips_ended)
    IN  [index |-> d[district_col],
         geometry |-> d.geometry,
         area_km2 |-> area,
         population |-> population,
         population_density_km2 |-> fillna(density, Whole(0)),
         trips_started |-> trips_started,
         trips_ended |-> trips_ended,
         net_trips |-> net_trips,
         total_trips |-> total_trips,
         trips_started_per_km2 |-> FDiv(trips_started, area),
         trips_ended_per_km2 |-> FDiv(trips_ended, area),
         net_trips_per_km2 |-> FDiv(net_trips, area),
         total_trips_per_km2 |-> FDiv(total_trips, area),
         trips_started_per_capita |-> FDiv(trips_started, population),
         trips_ended_per_capita |-> FDiv(trips_ended, population),
         net_trips_per_capita |-> FDiv(net_trips, population),
         total_trips_per_capita |-> FDiv(total_trips, population)]

mobilityindicators(districts_gdf, trips_df, population_col, district_col, start_col, end_col) ==
    LET c == CRS(districts_gdf, PyStr(StrCrs(districts_gdf.crs)), FALSE)
    IN  IF c.status # "ok" THEN Raise(c.status, c.what)
        ELSE IF population_col \notin c.gdf.cols
        THEN Raise("KeyError", population_col)
        ELSE IF start_col \notin trips_df.cols
        THEN Raise("KeyError", start_col)
        ELSE IF end_col \notin trips_df.cols
        THEN Raise("KeyError", end_col)
        ELSE IF district_col \notin c.gdf.cols
        THEN Raise("KeyError", district_col)
        ELSE LET start_per_district == groupby_size(trips_df, start_col)
                 end_per_district == groupby_size(trips_df, end_col)
             IN  Ok([cols |-> {"geometry", "area_km2", population_col,
                               "population_density_km2", "trips_started",
                               "trips_ended", "net_trips", "total_trips",
                               "trips_started_per_km2", "trips_ended_per_km2",
                               "net_trips_per_km2", "total_trips_per_km2",
                               "trips_started_per_capita",
                               "trips_ended_per_capita", "net_trips_per_capita",
                               "total_trips_per_capita"},
                     crs |-> c.gdf.crs,
                     rows |-> [i \in 1..Len(c.gdf.rows) |->
                        MobilityRow(c.gdf.rows[i], population_col, district_col,
                                    start_per_district, end_per_district)]])

(***************************************************************************)
(* indicators.buildingindicators and indikatorer.bygningsindikatorer       *)
(***************************************************************************)
RECURSIVE SumArea(_, _, _, _)
SumArea(rows, col, label, i) ==
    IF i > Len(rows) THEN Whole(0)
    ELSE FAdd(IF rows[i][col] = label THEN Area(rows[i].geometry) ELSE Whole(0),
              SumArea(rows, col, label, i + 1))

\* buildings.groupby(col).agg(antall_bygninger=size, bygning_areal_m2=sum)
groupby_agg(buildings, col) ==
    LET size == groupby_size(buildings, col)
    IN  [l \in DOMAIN size |->
            [antall_bygninger |-> Whole(size[l]),
             bygning_areal_m2 |-> SumArea(buildings.rows, col, l, 1)]]

\* districts.merge(agg, on=col, how="left"): every district row, with the
\* two aggregated columns, missing for a district no building names.
merge(districts, agg, col) ==
    [districts EXCEPT
        !.cols = @ \cup {"antall_bygninger", "bygning_areal_m2"},
        !.rows = [i \in 1..Len(districts.rows) |->
            LET name == districts.rows[i][col]
            IN  districts.rows[i] @@
                (IF name \in DOMAIN agg
                 THEN agg[name]
                 ELSE [antall_bygninger |-> NotANumber,
                       bygning_areal_m2 |-> NotANumber])]]

\* Faulty variant: the average without the guard for districts without buildings.
AvgBuildingAreaUnguarded(building_area, count) == FDiv(building_area, count)

\* The average footprint: 0.0, overwritten where the district has buildings.
AvgBuildingArea(building_area, count) ==
    IF count.k = "num" /\ count.n > 0
    THEN FDiv(building_area, count)
    ELSE Whole(0)

\* The indicator columns, from the merged table's count and area columns.
BuildingRow(d, district_col, count_col, area_col) ==
    LET count == fillna(d[count_col], Whole(0))
        building_area == fillna(d[area_col], Whole(0))
        area_m2 == Area(d.geometry)
        area_km2 == FDiv(Area(d.geometry), Whole(1000000))
    IN  [index |-> d[district_col],
         geometry |-> d.geometry,
         count |-> count,
         building_area_m2 |-> building_area,
         area_m2 |-> area_m2,
         area_km2 |-> area_km2,
         buildings_per_km2 |-> FDiv(count, area_km2),
         built_up_area_percent |-> FMul(FDiv(building_area, area_m2), Whole(100)),
         avg_building_area_m2 |-> AvgBuildingArea(building_area, count)]

\* Faulty variant: the geographic CRS as the common CRS.
IndicatorTargetCrsGeographic == EPSG \o Code4326

IndicatorTargetCrs == EPSG \o Code25833

\* The part the two functions share: the column checks, the common CRS, the
\* aggregation per district and the merge.
MergedDistricts(buildings_gdf, districts_gdf, district_col) ==
    IF district_col \notin buildings_gdf.cols
    THEN Raise("KeyError", "buildings_gdf")
    ELSE IF district_col \notin districts_gdf.cols
    THEN Raise("KeyError", "districts_gdf")
    ELSE LET districts == CRS(districts_gdf, PyStr(IndicatorTargetCrs), FALSE)
         IN  IF districts.status # "ok" THEN districts
             ELSE LET buildings == CRS(buildings_gdf, PyStr(IndicatorTargetCrs), FALSE)
                  IN  IF buildings.status # "ok" THEN buildings
                      ELSE Ok(merge(districts.gdf,
                                    groupby_agg(buildings.gdf, district_col),
                                    district_col))

IndicatorTable(merged, district_col, count_col, area_col) ==
    IF merged.status # "ok" THEN merged
    ELSE IF ~({count_col, area_col} \subseteq merged.gdf.cols)
    THEN Raise("KeyError", count_col)
    ELSE Ok([merged.gdf EXCEPT
                !.cols = (@ \ {district_col}) \cup
                    {"area_m2", "area_km2", "buildings_per_km2",
                     "built_up_area_percent", "avg_building_area_m2"},
                !.rows = [i \in 1..Len(merged.gdf.rows) |->
                    BuildingRow(merged.gdf.rows[i], district_col, count_col,
                                area_col)]])

buildingindicators(buildings_gdf, districts_gdf, district_col) ==
    IndicatorTable(MergedDistricts(buildings_gdf, districts_gdf, district_col),
                   district_col, "num_buildings", "building_area_m2")

bygningsindikatorer(bygninger_gdf, bydeler_gdf, bydel_col) ==
    IndicatorTable(MergedDistricts(bygninger_gdf, bydeler_gdf, bydel_col),
                   bydel_col, "antall_bygninger", "bygning_areal_m2")

(***************************************************************************)
(* data_reading.data_to_gdf and lese_data.data_til_gdf                     *)
(***************************************************************************)
\* The files "from helpers import CRS" can find: helpers.py at the root of
\* the repository or helpers.py of its src directory, by the import path.
HelpersModules == {"src/helpers.py", "src/src/helpers.py"}

\* The name of the keyword-only flag in the signature of CRS.
FlagKeyword(module) ==
    IF module = "src/helpers.py" THEN "wgs84_mangler" ELSE "wgs84_missing"

\* CRS(gdf, target_crs, name=..., <keyword>=flag): a keyword the signature
\* does not have is refused before the body runs.
CallHelper(module, gdf, target_crs, keyword, flag) ==
    IF keyword # FlagKeyword(module)
    THEN Raise("TypeError", keyword)
    ELSE CRS(gdf, target_crs, flag)

\* The part the two readers share, up to the keyword they pass.
ReadGeometryFile(file, target_crs, module, keyword) ==
    IF ~file.exists
    THEN Raise("FileNotFoundError", "path")
    ELSE IF ~file.readable
    THEN Raise("IOError", "read_file")
    ELSE CallHelper(module, file.gdf, target_crs, keyword, TRUE)

data_to_gdf(file, target_crs, module) ==
    ReadGeometryFile(file, target_crs, module, "wgs84_missing")

data_til_gdf(file, target_crs, module) ==
    ReadGeometryFile(file, target_crs, module, "wgs84_mangler")

(***************************************************************************)
(* data_processing.fetch_buildings                                         *)
(***************************************************************************)
\* What the feature service answers to a query: a failure, which
\* ox.features_from_place raises, or a table of features.
ServiceFailure == [failed |-> TRUE, features |-> NoTable]
Answer(features) == [failed |-> FALSE, features |-> features]

\* Faulty variant: a failed query is sent a second time.
QueryServiceWithRetry(service) ==
    IF service[1].failed
    THEN [queries |-> 2, answer |-> service[2]]
    ELSE [queries |-> 1, answer |-> service[1]]

\* ox.features_from_place(query, tags): one query, answered by the first
\* answer of the service.
QueryService(service) == [queries |-> 1, answer |-> service[1]]

\* An outcome of fetch_buildings with the number of queries it sent and the
\* operands of the spatial join that ran.
WithQueries(outcome, n) ==
    [status |-> outcome.status, what |-> outcome.what, gdf |-> outcome.gdf,
     queries |-> n,
     joins |-> IF "joins" \in DOMAIN outcome THEN outcome.joins ELSE <<>>]

\* Faulty variant: every feature is kept, whatever its geometry type.
PolygonalUnfiltered(features) == features

\* buildings[buildings.geometry.type.isin(["Polygon", "MultiPolygon"])]
Polygonal(features) ==
    [features EXCEPT
        !.rows = SelectSeq(@, LAMBDA f : f.type \in {"Polygon", "MultiPolygon"})]

FetchTargetCrs == EPSG \o Code25833

\* Faulty variant: the service is queried before the district table is
\* looked at.
fetch_buildings_query_first(districts_gdf, district_col, service, module) ==
    LET q == QueryService(service)
    IN  IF q.answer.failed
        THEN WithQueries(Raise("ServiceError", "features_from_place"), q.queries)
        ELSE IF district_col \notin districts_gdf.cols
        THEN WithQueries(Raise("KeyError", district_col), q.queries)
        ELSE IF "geometry" \notin districts_gdf.cols
        THEN WithQueries(Raise("ValueError", "geometry"), q.queries)
        ELSE WithQueries(CRS(districts_gdf, PyStr(FetchTargetCrs), FALSE), q.queries)

fetch_buildings(districts_gdf, district_col, service, module) ==
    IF district_col \notin districts_gdf.cols
    THEN WithQueries(Raise("KeyError", district_col), 0)
    ELSE IF "geometry" \notin districts_gdf.cols
    THEN WithQueries(Raise("ValueError", "geometry"), 0)
    ELSE LET d == CRS(districts_gdf, PyStr(FetchTargetCrs), FALSE)
         IN  IF d.status # "ok" THEN WithQueries(d, 0)
             ELSE LET q == QueryService(service)
                  IN  IF q.answer.failed
                      THEN WithQueries(Raise("ServiceError", "features_from_place"),
                                       q.queries)
                      ELSE LET b == CallHelper(module, Polygonal(q.answer.features),
                                               PyStr(FetchTargetCrs),
                                               "wgs84_mangler", TRUE)
                           IN  IF b.status # "ok" THEN WithQueries(b, q.queries)
                               ELSE WithQueries(
                                        Ok(sjoin(b.gdf, d.gdf, district_col))
                                        @@ [joins |-> << [left |-> b.gdf.crs,
                                                          right |-> d.gdf.crs] >>],
                                        q.queries)

(***************************************************************************)
(* data_processing.points_gdf                                              *)
(***************************************************************************)
\* Faulty variant: the points are attached to the rows in reverse order.
PointFrameReversed(trips_df, lat_col, lon_col, source_crs) ==
    [cols |-> trips_df.cols \cup {"geometry"},
     crs |-> FromUserInput(source_crs),
     rows |-> [i \in 1..Len(trips_df.rows) |->
                ("geometry" :> [lo |-> trips_df.rows[Len(trips_df.rows) + 1 - i][lon_col],
                                hi |-> trips_df.rows[Len(trips_df.rows) + 1 - i][lon_col]])
                @@ trips_df.rows[i]]]

\* GeoDataFrame(trips_df.copy(), geometry=points_from_xy(lon, lat), crs=...):
\* the trips with a point each; the model keeps the first axis of a point.
PointFrame(trips_df, lat_col, lon_col, source_crs) ==
    [cols |-> trips_df.cols \cup {"geometry"},
     crs |-> FromUserInput(source_crs),
     rows |-> [i \in 1..Len(trips_df.rows) |->
                ("geometry" :> [lo |-> trips_df.rows[i][lon_col],
                                hi |-> trips_df.rows[i][lon_col]])
                @@ trips_df.rows[i]]]

points_gdf(trips_df, lat_col, lon_col, source_crs, target_crs) ==
    IF lat_col \notin trips_df.cols \/ lon_col \notin trips_df.cols
    THEN Raise("KeyError", "coordinates")
    ELSE IF ~CanParse(source_crs)
    THEN Raise("CRSError", "source_crs")
    ELSE LET gdf == PointFrame(trips_df, lat_col, lon_col, source_crs)
         IN  IF to_crs_fails(gdf, target_crs)
             THEN Raise("ValueError", "transform") @@ [names |-> <<target_crs>>]
             ELSE Reprojected(to_crs(gdf, target_crs))

(***************************************************************************)
(* visualization.plot_mobility_indicators and plot_building_indicators.    *)
(* A figure is held as the data it draws.                                  *)
(***************************************************************************)
RaiseFig(kind, what) == [status |-> kind, what |-> what, fig |-> <<>>]
OkFig(fig) == [status |-> "ok", what |-> "", fig |-> fig]

\* "d in df[col].unique()", and with col the index "d in df.index"
InColumn(df, col, d) == \E i \in 1..Len(df.rows) : df.rows[i][col] = d

\* gdf.loc[[district_a, district_b]]: the rows indexed by the first name,
\* then those indexed by the second.
loc(gdf, names) ==
    SelectSeq(gdf.rows, LAMBDA r : r.index = names[1])
    \o SelectSeq(gdf.rows, LAMBDA r : r.index = names[2])

MobilityIndicators ==
    {"trips_started", "trips_ended", "net_trips", "total_trips",
     "trips_started_per_km2", "trips_ended_per_km2", "net_trips_per_km2",
     "total_trips_per_km2", "trips_started_per_capita",
     "trips_ended_per_capita", "net_trips_per_capita",
     "total_trips_per_capita", "population_density_km2"}

\* One bar plot per indicator: the values of the selected rows.
BarFigure(rows, names, indicators) ==
    [districts |-> names,
     bars |-> [ind \in indicators |-> [j \in 1..Len(rows) |-> rows[j][ind]]]]

\* Faulty variant: only the first district is looked up in the index.
plot_mobility_indicators_first_only(mobility_gdf, district_a, district_b) ==
    IF ~InColumn(mobility_gdf, "index", district_a)
    THEN RaiseFig("KeyError", district_a)
    ELSE IF ~(MobilityIndicators \subseteq mobility_gdf.cols)
    THEN RaiseFig("KeyError", "indicator")
    ELSE OkFig(BarFigure(loc(mobility_gdf, <<district_a, district_b>>),
                         <<district_a, district_b>>, MobilityIndicators))

plot_mobility_indicators(mobility_gdf, district_a, district_b) ==
    IF ~InColumn(mobility_gdf, "index", district_a)
    THEN RaiseFig("KeyError", district_a)
    ELSE IF ~InColumn(mobility_gdf, "index", district_b)
    THEN RaiseFig("KeyError", district_b)
    ELSE IF ~(MobilityIndicators \subseteq mobility_gdf.cols)
    THEN RaiseFig("KeyError", "indicator")
    ELSE OkFig(BarFigure(loc(mobility_gdf, <<district_a, district_b>>),
                         <<district_a, district_b>>, MobilityIndicators))

BuildingIndicators ==
    {"num_buildings", "building_area_m2", "buildings_per_km2",
     "built_up_area_percent", "avg_building_area_m2"}

\* The model holds the count of a row of the building table under one name,
\* count; the plot reads it as num_buildings.
plot_building_indicators(buildingindicators_gdf, district_a, district_b) ==
    IF ~InColumn(buildingindicators_gdf, "index", district_a)
    THEN RaiseFig("KeyError", district_a)
    ELSE IF ~InColumn(buildingindicators_gdf, "index", district_b)
    THEN RaiseFig("KeyError", district_b)
    ELSE IF ~(BuildingIndicators \subseteq buildingindicators_gdf.cols)
    THEN RaiseFig("KeyError", "indicator")
    ELSE LET df == loc(buildingindicators_gdf, <<district_a, district_b>>)
         IN  OkFig(BarFigure([j \in 1..Len(df) |->
                                 ("num_buildings" :> df[j].count) @@ df[j]],
                             <<district_a, district_b>>, BuildingIndicators))

(***************************************************************************)
(* visualization.plot_timeprofile and plot_timeprofile_directions          *)
(***************************************************************************)
DigitValue(c) ==
    CASE c = "0" -> 0 [] c = "1" -> 1 [] c = "2" -> 2 [] c = "3" -> 3
      [] c = "4" -> 4 [] c = "5" -> 5 [] c = "6" -> 6 [] c = "7" -> 7
      [] c = "8" -> 8 [] c = "9" -> 9 [] OTHER -> -1

\* pd.to_datetime(value, errors="coerce"): the time of a text "HH:MM", and
\* the missing time NaT for any other text.
to_datetime(v) ==
    IF /\ Len(v) = 5
       /\ v[3] = ":"
       /\ \A i \in {1, 2, 4, 5} : DigitValue(v[i]) >= 0
       /\ 10 * DigitValue(v[1]) + DigitValue(v[2]) < 24
       /\ 10 * DigitValue(v[4]) + DigitValue(v[5]) < 60
    THEN [k |-> "time", hour |-> 10 * DigitValue(v[1]) + DigitValue(v[2])]
    ELSE [k |-> "NaT", hour |-> 0]

\* df[time_column] = pd.to_datetime(df[time_column], errors="coerce", utc=True)
Converted(df, time_column) ==
    [df EXCEPT !.rows = [i \in 1..Len(df.rows) |->
        [df.rows[i] EXCEPT ![time_column] = to_datetime(@)]]]

\* df.dropna(subset=[time_column]) and df["time"] = df[time_column].dt.hour
WithHour(df, time_column) ==
    LET kept == SelectSeq(df.rows, LAMBDA r : r[time_column].k # "NaT")
    IN  [i \in 1..Len(kept) |-> kept[i] @@ ("time" :> kept[i][time_column].hour)]

\* groupby("time").size().reindex(range(24), fill_value=0)
PerHour(rows) ==
    [h \in 0..23 |-> Cardinality({ i \in 1..Len(rows) : rows[i].time = h })]

\* The first of the three columns the table lacks.
MissingTimeColumn(df, start_col, end_col, time_column) ==
    IF start_col \notin df.cols THEN start_col
    ELSE IF end_col \notin df.cols THEN end_col
    ELSE time_column

plot_timeprofile(trips_df, district_a, district_b, start_col, end_col, time_column) ==
    IF ~({start_col, end_col, time_column} \subseteq trips_df.cols)
    THEN RaiseFig("KeyError",
                  MissingTimeColumn(trips_df, start_col, end_col, time_column))
    ELSE LET df == WithHour(Converted(trips_df, time_column), time_column)
             districts == <<district_a, district_b>>
         IN  OkFig([districts |-> districts,
                    lines |-> [j \in 1..2 |->
                        [start |-> PerHour(SelectSeq(df,
                                    LAMBDA r : r[start_col] = districts[j])),
                         end |-> PerHour(SelectSeq(df,
                                    LAMBDA r : r[end_col] = districts[j]))]]])

plot_timeprofile_directions(trips_df, district_a, district_b, start_col, end_col, time_column) ==
    IF ~({start_col, end_col, time_column} \subseteq trips_df.cols)
    THEN RaiseFig("KeyError",
                  MissingTimeColumn(trips_df, start_col, end_col, time_column))
    ELSE LET df == WithHour(Converted(trips_df, time_column), time_column)
             directions == << <<district_a, district_b>>, <<district_b, district_a>> >>
         IN  OkFig([districts |-> directions,
                    lines |-> [j \in 1..2 |->
                        PerHour(SelectSeq(df,
                            LAMBDA r : /\ r[start_col] = directions[j][1]
                                       /\ r[end_col] = directions[j][2]))]])

(***************************************************************************)
(* visualization.plot_buildingtypes.  types is None (given false) or a     *)
(* list of type names; an outcome carries df, the table the building types *)
(* were filled in.                                                         *)
(***************************************************************************)
\* df[type_col] = df[type_col].fillna(fill)
TypesFilled(df, type_col, fill) ==
    [df EXCEPT !.rows = [i \in 1..Len(df.rows) |->
        [df.rows[i] EXCEPT ![type_col] = IF @ = NaN THEN fill ELSE @]]]

\* Faulty variant: the rows are not filtered to the districts in focus.
InFocusAll(df, district_col, focus) == df

\* df[df[district_col].isin(focus)]
InFocus(df, district_col, focus) ==
    [df EXCEPT !.rows = SelectSeq(@, LAMBDA r : r[district_col] \in focus)]

\* value_counts().reindex(types, fill_value=0): the count of a type.
CountOf(counts, t) == IF t \in DOMAIN counts THEN counts[t] ELSE 0

\* counts.sum() over the types shown.
RECURSIVE SumCounts(_, _)
SumCounts(counts, shown) ==
    IF shown = {} THEN 0
    ELSE LET t == CHOOSE u \in shown : TRUE
         IN  CountOf(counts, t) + SumCounts(counts, shown \ {t})

\* The bar of a type in the plot of a district: the number of buildings, or
\* with normalize their share in percent of the buildings drawn.
TypeBar(counts, shown, t, normalize) ==
    IF normalize /\ SumCounts(counts, shown) > 0
    THEN FMul(FDiv(Whole(CountOf(counts, t)), Whole(SumCounts(counts, shown))),
              Whole(100))
    ELSE Whole(CountOf(counts, t))

plot_buildingtypes(buildings_gdf, district_a, district_b, district_col, type_col, types, normalize) ==
    IF district_col \notin buildings_gdf.cols
    THEN RaiseFig("KeyError", district_col) @@ [df |-> NoFrame]
    ELSE IF type_col \notin buildings_gdf.cols
    THEN RaiseFig("KeyError", type_col) @@ [df |-> NoFrame]
    ELSE IF ~InColumn(buildings_gdf, district_col, district_a)
    THEN RaiseFig("KeyError", district_a) @@ [df |-> NoFrame]
    ELSE IF ~InColumn(buildings_gdf, district_col, district_b)
    THEN RaiseFig("KeyError", district_b) @@ [df |-> NoFrame]
    ELSE LET filled == TypesFilled(buildings_gdf, type_col, "uknown")
             focus == <<district_a, district_b>>
             df == InFocus(filled, district_col, {district_a, district_b})
             total_counts == groupby_size(df, type_col)
             shown == IF types.given
                      THEN types.names \cap DOMAIN total_counts
                      ELSE DOMAIN total_counts
         IN  IF shown = {}
             THEN RaiseFig("ValueError", "types") @@ [df |-> filled]
             ELSE OkFig(
                    [districts |-> focus,
                     bars |-> [j \in 1..2 |->
                        LET counts == groupby_size(
                                InFocus(df, district_col, {focus[j]}), type_col)
                        IN  [t \in shown |-> TypeBar(counts, shown, t, normalize)]]])
                  @@ [df |-> filled]

(***************************************************************************)
(* map.interactive_map: the map is held as its layers, the choropleth of   *)
(* the two districts and the buildings drawn; popup_cols is left at its    *)
(* default.  An outcome carries building, the table the building types     *)
(* were filled in.                                                         *)
(***************************************************************************)
\* gdf.reset_index(): the index becomes a column under its name.
reset_index(gdf) ==
    [gdf EXCEPT
        !.cols = @ \cup {gdf.index_name},
        !.index_name = "",
        !.rows = [i \in 1..Len(gdf.rows) |->
            (gdf.index_name :> gdf.rows[i].index) @@ gdf.rows[i]]]

RaiseMap(kind, what) == RaiseFig(kind, what) @@ [building |-> NoTable]

\* The map from the building table on, for districts that passed the checks.
BuildingLayer(gdf_focus, name_col, choropleth_col, buildings_gdf, focus, building_type_col, building_district_col) ==
    LET b == CRS(buildings_gdf, PyStr(EPSG \o Code4326), TRUE)
    IN  IF b.status # "ok" THEN RaiseMap(b.status, b.what)
        ELSE IF building_district_col \notin b.gdf.cols
        THEN RaiseMap("KeyError", building_district_col)
        ELSE IF building_type_col \notin b.gdf.cols
        THEN RaiseMap("KeyError", building_type_col)
        ELSE LET selected == InFocus(b.gdf, building_district_col, focus)
                 building == TypesFilled(selected, building_type_col, "unknown")
             IN  IF Len(selected.rows) = 0
                 THEN RaiseMap("ValueError", "buildings")
                 ELSE OkFig(
                        [choropleth |-> [j \in 1..Len(gdf_focus) |->
                            [name |-> gdf_focus[j][name_col],
                             value |-> gdf_focus[j][choropleth_col],
                             geometry |-> gdf_focus[j].geometry]],
                         buildings |-> [j \in 1..Len(building.rows) |->
                            [type |-> building.rows[j][building_type_col],
                             geometry |-> building.rows[j].geometry]]])
                      @@ [building |-> building]

interactive_map(mobility_gdf, buildings_gdf, district_a, district_b, choropleth_col, name_col, building_type_col, building_district_col) ==
    LET c == CRS(mobility_gdf, PyStr(EPSG \o Code4326), TRUE)
    IN  IF c.status # "ok" THEN RaiseMap(c.status, c.what)
        ELSE LET gdf == IF name_col \notin c.gdf.cols /\ c.gdf.index_name = name_col
                        THEN reset_index(c.gdf)
                        ELSE c.gdf
             IN  IF name_col \notin gdf.cols
                 THEN RaiseMap("KeyError", name_col)
                 ELSE IF choropleth_col \notin gdf.cols
                 THEN RaiseMap("KeyError", choropleth_col)
                 ELSE IF ~InColumn(gdf, name_col, district_a)
                 THEN RaiseMap("KeyError", district_a)
                 ELSE IF ~InColumn(gdf, name_col, district_b)
                 THEN RaiseMap("KeyError", district_b)
                 ELSE BuildingLayer(
                        InFocus(gdf, name_col, {district_a, district_b}).rows,
                        name_col, choropleth_col, buildings_gdf,
                        {district_a, district_b}, building_type_col,
                        building_district_col)

(***************************************************************************)
(* data_reading.csv_to_df and lese_data.csv_til_df.  A file is held as     *)
(* whether its path exists and the lines of its text.                      *)
(***************************************************************************)
\* The fields of a line of delimited text.
RECURSIVE Fields(_, _)
Fields(line, sep) ==
    IF \A i \in 1..Len(line) : line[i] # sep
    THEN <<line>>
    ELSE LET i == CHOOSE k \in 1..Len(line) :
                    line[k] = sep /\ \A j \in 1..(k - 1) : line[j] # sep
         IN  <<SubSeq(line, 1, i - 1)>>
             \o Fields(SubSeq(line, i + 1, Len(line)), sep)

\* The number a field of digits denotes.
RECURSIVE Number(_)
Number(field) ==
    IF field = <<>> THEN 0
    ELSE 10 * Number(SubSeq(field, 1, Len(field) - 1))
         + DigitValue(field[Len(field)])

\* pd.read_csv(path, sep=sep): the first line names the columns (names are
\* taken to be distinct); a first data line wider than the header gives its
\* leading fields to the index; a later line wider than that is a parser
\* error and so is a file without text; an absent or empty field is missing;
\* a column of digit fields holds numbers, any other column the texts.
read_csv(text, sep) ==
    IF text = <<>>
    THEN [failed |-> TRUE, df |-> NoFrame]
    ELSE LET header == Fields(text[1], sep)
             data == [i \in 1..(Len(text) - 1) |-> Fields(text[i + 1], sep)]
             width == IF Len(data) > 0 /\ Len(data[1]) > Len(header)
                      THEN Len(data[1])
                      ELSE Len(header)
             extra == width - Len(header)
             present(i, j) == extra + j <= Len(data[i]) /\ data[i][extra + j] # <<>>
             numeric(j) ==
                \A i \in 1..Len(data) :
                    present(i, j) =>
                        \A k \in 1..Len(data[i][extra + j]) :
                            DigitValue(data[i][extra + j][k]) >= 0
             column(c) == CHOOSE j \in 1..Len(header) : header[j] = c
             cell(i, j) ==
                IF ~present(i, j) THEN NaN
                ELSE IF numeric(j) THEN Number(data[i][extra + j])
                ELSE data[i][extra + j]
         IN  IF \E i \in 1..Len(data) : Len(data[i]) > width
             THEN [failed |-> TRUE, df |-> NoFrame]
             ELSE [failed |-> FALSE,
                   df |-> [cols |-> { header[j] : j \in 1..Len(header) },
                           rows |-> [i \in 1..Len(data) |->
                                [c \in { header[j] : j \in 1..Len(header) } |->
                                    cell(i, column(c))]]]]

\* Faulty variant: the file is parsed before its path is looked up.
csv_to_df_parse_first(file, sep) ==
    IF read_csv(file.text, sep).failed
    THEN [status |-> "IOError", what |-> "read_csv", df |-> NoFrame, parses |-> 1]
    ELSE IF ~file.exists
    THEN [status |-> "FileNotFoundError", what |-> "path", df |-> NoFrame, parses |-> 1]
    ELSE [status |-> "ok", what |-> "", df |-> read_csv(file.text, sep).df, parses |-> 1]

\* An outcome carries parses, the number of times the text was parsed.
csv_to_df(file, sep) ==
    IF ~file.exists
    THEN [status |-> "FileNotFoundError", what |-> "path", df |-> NoFrame, parses |-> 0]
    ELSE IF read_csv(file.text, sep).failed
    THEN [status |-> "IOError", what |-> "read_csv", df |-> NoFrame, parses |-> 1]
    ELSE [status |-> "ok", what |-> "", df |-> read_csv(file.text, sep).df, parses |-> 1]

\* The Norwegian reader has the statements of the English one.
csv_til_df(file, sep) == csv_to_df(file, sep)

\* The class an exception raised under a name is an instance of: IOError is
\* another name of OSError.
ExceptionClass(name) == IF name = "IOError" THEN "OSError" ELSE name

\* "except handler" receives an exception raised as kind: the class of the
\* exception is the class of the handler or derives from it.
Catches(handler, kind) ==
    ExceptionClass(handler) \in
        CASE ExceptionClass(kind) = "FileNotFoundError" ->
                {"FileNotFoundError", "OSError", "Exception"}
          [] OTHER -> {ExceptionClass(kind), "Exception"}

(***************************************************************************)
(* The tables of the caller.  A name inside a function refers to an        *)
(* object: the table the caller passed or a table of the function's own.   *)
(* An assignment obj[col] = values changes the object it is made on.       *)
(***************************************************************************)
Argument(name, table) == [ref |-> name, table |-> table]

\* Faulty variant: no copy is taken, the name refers to the same object.
copy_aliased(obj) == obj

\* DataFrame.copy(): a table of the function's own with the same content.
copy(obj) == [ref |-> "local", table |-> obj.table]

\* obj[col] = values: the object holds `table` afterwards.
setitem(obj, table) == [ref |-> obj.ref, table |-> table]

\* The caller's tables after a call that assigned into the objects `written`.
AfterCall(args, written) ==
    [name \in DOMAIN args |->
        IF \E o \in written : o.ref = name
        THEN (CHOOSE o \in written : o.ref = name).table
        ELSE args[name]]

\* add_district assigns into trips, the copy of trips_df, once the joins ran.
add_district_written(trips_df, out) ==
    IF out.joins = <<>> THEN {}
    ELSE { setitem(copy(Argument("trips_df", trips_df)), out.trips) }

\* districts["area_km2"] = ...; districts["population_density_km2"] = ...
WithAreaColumns(districts, population_col) ==
    [districts EXCEPT
        !.cols = @ \cup {"area_km2"} \cup
                 (IF population_col \in districts.cols
                  THEN {"population_density_km2"} ELSE {}),
        !.rows = [i \in 1..Len(districts.rows) |->
            LET area_km2 == FDiv(Area(districts.rows[i].geometry), Whole(1000000))
            IN  districts.rows[i] @@ ("area_km2" :> area_km2) @@
                (IF population_col \in districts.cols
                 THEN ("population_density_km2" :>
                          FDiv(districts.rows[i][population_col], area_km2))
                 ELSE <<>>)]]

\* mobilityindicators assigns into districts, the copy of the table CRS
\* returned, itself a copy of districts_gdf.
mobilityindicators_written(districts_gdf, population_col) ==
    LET c == CRS(districts_gdf, PyStr(StrCrs(districts_gdf.crs)), FALSE)
    IN  IF c.status # "ok" THEN {}
        ELSE { setitem(copy(copy(Argument("districts_gdf", districts_gdf))),
                       WithAreaColumns(c.gdf, population_col)) }

\* buildings["area_m2"] = buildings.geometry.area
WithAreaM2(buildings) ==
    [buildings EXCEPT
        !.cols = @ \cup {"area_m2"},
        !.rows = [i \in 1..Len(buildings.rows) |->
            buildings.rows[i] @@ ("area_m2" :> Area(buildings.rows[i].geometry))]]

\* The building aggregators assign into buildings, the normalised copy of
\* buildings_gdf; the district columns are assigned in the merged table.
buildingindicators_written(buildings_gdf, districts_gdf, district_col) ==
    IF MergedDistricts(buildings_gdf, districts_gdf, district_col).status # "ok"
    THEN {}
    ELSE { setitem(copy(copy(Argument("buildings_gdf", buildings_gdf))),
                   WithAreaM2(CRS(buildings_gdf, PyStr(IndicatorTargetCrs),
                                  FALSE).gdf)) }

\* points_gdf builds the point table on a copy of trips_df.
points_gdf_written(trips_df, lat_col, lon_col, source_crs) ==
    IF lat_col \notin trips_df.cols \/ lon_col \notin trips_df.cols
        \/ ~CanParse(source_crs)
    THEN {}
    ELSE { setitem(copy(Argument("trips_df", trips_df)),
                   PointFrame(trips_df, lat_col, lon_col, source_crs)) }

\* The time profiles convert the time column in df, the copy of trips_df.
timeprofile_written(trips_df, start_col, end_col, time_column) ==
    IF ~({start_col, end_col, time_column} \subseteq trips_df.cols)
    THEN {}
    ELSE { setitem(copy(Argument("trips_df", trips_df)),
                   Converted(trips_df, time_column)) }

\* plot_buildingtypes fills the building types in df, the copy of
\* buildings_gdf, once the columns and districts were found.
plot_buildingtypes_written(buildings_gdf, out) ==
    IF out.status = "KeyError" THEN {}
    ELSE { setitem(copy(Argument("buildings_gdf", buildings_gdf)), out.df) }

\* interactive_map fills the building types in building, the copy of the
\* rows selected from the copy CRS returned.
interactive_map_written(buildings_gdf, out) ==
    IF out.status # "ok" THEN {}
    ELSE { setitem(copy(copy(Argument("buildings_gdf", buildings_gdf))),
                   out.building) }

(***************************************************************************)
(* Inputs.                                                                 *)
(***************************************************************************)
CrsValues ==
    { None,
      CrsObj(Code25833, EPSG \o Code25833),
      CrsObj(Code25833, epsg \o Code25833),
      CrsObj(Code25833, ProjUtm),
      CrsObj(Code4326, EPSG \o Code4326) }

Targets ==
    { PyStr(EPSG \o Code25833),
      PyStr(<<" ">> \o epsg \o Code25833 \o <<" ">>),
      PyStr(EPSG \o Code4326),
      PyStr(epsg \o Code4326),
      PyStr(EPSG \o Code99999),
      PyStr(EPSG),
      PyStr(EPSG \o <<"X">>),
      PyStr(Code25833),
      PyStr(ProjUtm),
      PyInt(Code25833) }

Point(x) == [lo |-> x, hi |-> x]

Metric == CrsObj(Code25833, EPSG \o Code25833)
WGS84 == CrsObj(Code4326, EPSG \o Code4326)

\* A coordinate given in degrees, written in the frame of a CRS (an unset CRS
\* leaves the numbers as they are).
InFrame(crs, deg) ==
    IF crs = None THEN deg ELSE Transform(Geographic, crs.code, deg)

\* Where a point can lie: inside A, on the boundary A and B share, inside B
\* and outside both districts of Partition.
PointPositions == {1, 2, 3, 5}

Points(crs, geometry_col, positions) ==
    [cols |-> {geometry_col}, crs |-> crs,
     rows |-> [i \in 1..Len(positions) |->
                (geometry_col :> Point(InFrame(crs, positions[i])))]]

PointTables ==
    { Points(k, c, r) :
        c \in {"geometry", "geom"},
        k \in CrsValues,
        r \in {<<>>, <<1>>, <<1, 3>>} }

AllDistrictCols == {"bydel", "befolkning_2024", "geometry"}

District(crs, cols, name, pop, lo, hi) ==
    LET row == [bydel |-> name, befolkning_2024 |-> pop,
                geometry |-> [lo |-> InFrame(crs, lo), hi |-> InFrame(crs, hi)]]
    IN  [c \in cols |-> row[c]]

\* A and B share the boundary at 2.
Partition(crs, cols, popA) ==
    [cols |-> cols, crs |-> crs,
     rows |-> << District(crs, cols, "A", popA, 0, 2),
                 District(crs, cols, "B", Whole(0), 2, 4) >>]

\* A and B overlap between 1 and 3.
Overlapping(crs, cols) ==
    [cols |-> cols, crs |-> crs,
     rows |-> << District(crs, cols, "A", Whole(10), 0, 3),
                 District(crs, cols, "B", Whole(20), 1, 4) >>]

\* Districts of 1, 2 and 0.5 km2 with 1000, 2000 and 500 inhabitants.
Scenario ==
    [cols |-> AllDistrictCols, crs |-> Metric,
     rows |-> << District(Metric, AllDistrictCols, "A", Whole(1000), 0, 10),
                 District(Metric, AllDistrictCols, "B", Whole(2000), 10, 30),
                 District(Metric, AllDistrictCols, "C", Whole(500), 30, 35) >>]

DistrictTables ==
    { Partition(k, AllDistrictCols, Whole(10)) : k \in CrsValues }
    \cup { Partition(Metric, AllDistrictCols, NotANumber),
           Overlapping(Metric, AllDistrictCols),
           Scenario }
    \cup { Partition(Metric, AllDistrictCols \ {c}, Whole(10)) :
            c \in {"bydel", "befolkning_2024"} }
    \cup { Partition(None, AllDistrictCols \ {"bydel"}, Whole(10)) }

Trips(n) == [cols |-> {"id"}, rows |-> [i \in 1..n |-> [id |-> i]]]

\* The point sets are enumerated in full against the two metric district
\* tables; the other district tables and an unset point CRS are met by one trip.
AddDistrictCase(n, m, k, d) ==
    \/ /\ k # None
       /\ d \in {Partition(Metric, AllDistrictCols, Whole(10)),
                 Overlapping(Metric, AllDistrictCols)}
    \/ /\ n = 1
       /\ m = 1
       /\ k # Metric

StartLabels == {"A", "B", "Z", NaN}
EndLabels == {"A", "B", NaN}

Trip(s, e) == [start_district |-> s, end_district |-> e]

\* Five trips from A to B and two from B to C.
ScenarioTrips ==
    [cols |-> {"start_district", "end_district"},
     rows |-> << Trip("A", "B"), Trip("A", "B"), Trip("A", "B"), Trip("A", "B"),
                 Trip("A", "B"), Trip("B", "C"), Trip("B", "C") >>]

TripTable(cols, starts, ends) ==
    [cols |-> cols,
     rows |-> [i \in 1..Len(starts) |-> [c \in cols |-> Trip(starts[i], ends[i])[c]]]]

BuildingLabels == {"A", "B", NaN}

\* Footprints of 100 and 300 m2 in a metric frame; in degrees they cover
\* 1 and 3 units.
BuildingSizes(crs) ==
    IF crs # None /\ crs.code = Geographic THEN {1, 3} ELSE {100, 300}

Buildings(crs, cols, labels, sizes) ==
    [cols |-> cols, crs |-> crs,
     rows |-> [i \in 1..Len(labels) |->
        [c \in cols |-> [bydel |-> labels[i],
                         geometry |-> [lo |-> 0, hi |-> sizes[i]]][c]]]]

BuildingCrsValues == {Metric, WGS84, CrsObj(Code25833, ProjUtm), None}

Idle == [op |-> "none"]
NoRet == [status |-> "none"]

Init == call = Idle /\ ret = NoRet /\ inputs = <<>>

CallCRS ==
    /\ call = Idle
    /\ \E gdf \in PointTables, target_crs \in Targets, wgs84_missing \in BOOLEAN :
        /\ call' = [op |-> "CRS", gdf |-> gdf, target_crs |-> target_crs,
                    wgs84_missing |-> wgs84_missing]
        /\ ret' = CRS(gdf, target_crs, wgs84_missing)
        /\ inputs' = AfterCall([gdf |-> gdf], {})

CallAddDistrict ==
    /\ call = Idle
    /\ \E n \in 0..MaxTrips, m \in 0..MaxTrips, k \in {WGS84, Metric, None},
          d \in DistrictTables :
        /\ AddDistrictCase(n, m, k, d)
        /\ \E s \in [1..m -> PointPositions], e \in [1..m -> PointPositions] :
            /\ call' = [op |-> "add_district", trips_df |-> Trips(n),
                        start_gdf |-> Points(k, "geometry", s),
                        end_gdf |-> Points(k, "geometry", e),
                        districts_gdf |-> d, district_col |-> "bydel"]
            /\ ret' = add_district(Trips(n), Points(k, "geometry", s),
                                   Points(k, "geometry", e), d, "bydel")
            /\ inputs' = AfterCall(
                    [trips_df |-> Trips(n), start_gdf |-> Points(k, "geometry", s),
                     end_gdf |-> Points(k, "geometry", e), districts_gdf |-> d],
                    add_district_written(Trips(n), ret'))

CallMobilityindicators ==
    /\ call = Idle
    /\ \E d \in DistrictTables, m \in 0..MaxTrips,
          cols \in SUBSET {"start_district", "end_district"} :
        \E s \in [1..m -> StartLabels], e \in [1..m -> EndLabels] :
            \E t \in {TripTable(cols, s, e), ScenarioTrips} :
                /\ call' = [op |-> "mobilityindicators", districts_gdf |-> d,
                            trips_df |-> t, population_col |-> "befolkning_2024",
                            district_col |-> "bydel", start_col |-> "start_district",
                            end_col |-> "end_district"]
                /\ ret' = mobilityindicators(d, t, "befolkning_2024", "bydel",
                                             "start_district", "end_district")
                /\ inputs' = AfterCall(
                        [districts_gdf |-> d, trips_df |-> t],
                        mobilityindicators_written(d, "befolkning_2024"))

CallBuildingindicators ==
    /\ call = Idle
    /\ \E m \in 0..MaxBuildings, k \in BuildingCrsValues, d \in DistrictTables,
          cols \in {{"bydel", "geometry"}, {"geometry"}} :
        \E labels \in [1..m -> BuildingLabels], sizes \in [1..m -> BuildingSizes(k)] :
            /\ call' = [op |-> "buildingindicators",
                        buildings_gdf |-> Buildings(k, cols, labels, sizes),
                        districts_gdf |-> d, district_col |-> "bydel"]
            /\ ret' = buildingindicators(Buildings(k, cols, labels, sizes), d, "bydel")
            /\ inputs' = AfterCall(
                    [buildings_gdf |-> Buildings(k, cols, labels, sizes),
                     districts_gdf |-> d],
                    buildingindicators_written(Buildings(k, cols, labels, sizes),
                                               d, "bydel"))

CallBygningsindikatorer ==
    /\ call = Idle
    /\ \E m \in 0..MaxBuildings, k \in BuildingCrsValues, d \in DistrictTables,
          cols \in {{"bydel", "geometry"}, {"geometry"}} :
        \E labels \in [1..m -> BuildingLabels], sizes \in [1..m -> BuildingSizes(k)] :
            /\ call' = [op |-> "bygningsindikatorer",
                        buildings_gdf |-> Buildings(k, cols, labels, sizes),
                        districts_gdf |-> d, district_col |-> "bydel"]
            /\ ret' = bygningsindikatorer(Buildings(k, cols, labels, sizes), d, "bydel")
            /\ inputs' = AfterCall(
                    [buildings_gdf |-> Buildings(k, cols, labels, sizes),
                     districts_gdf |-> d],
                    buildingindicators_written(Buildings(k, cols, labels, sizes),
                                               d, "bydel"))

\* A path without a file, a file geopandas cannot read, and geometry files
\* with and without a CRS.
Files ==
    { [exists |-> FALSE, readable |-> FALSE, gdf |-> NoTable],
      [exists |-> TRUE, readable |-> FALSE, gdf |-> NoTable] }
    \cup { [exists |-> TRUE, readable |-> TRUE, gdf |-> Points(k, "geometry", r)] :
            k \in CrsValues, r \in {<<>>, <<1>>, <<1, 3>>} }

CallDataToGdf ==
    /\ call = Idle
    /\ \E file \in Files, target_crs \in Targets, module \in HelpersModules :
        /\ call' = [op |-> "data_to_gdf", file |-> file,
                    target_crs |-> target_crs, helpers |-> module]
        /\ ret' = data_to_gdf(file, target_crs, module)
        /\ inputs' = <<>>

CallDataTilGdf ==
    /\ call = Idle
    /\ \E file \in Files, target_crs \in Targets, module \in HelpersModules :
        /\ call' = [op |-> "data_til_gdf", file |-> file,
                    target_crs |-> target_crs, helpers |-> module]
        /\ ret' = data_til_gdf(file, target_crs, module)
        /\ inputs' = <<>>

\* Features in degrees: a polygon inside A of Partition, a multipolygon
\* across the boundary of A and B (and inside both districts of
\* Overlapping), a point and a line.
FeatureShapes ==
    { [type |-> "Polygon", geometry |-> [lo |-> 0, hi |-> 1]],
      [type |-> "MultiPolygon", geometry |-> [lo |-> 1, hi |-> 3]],
      [type |-> "Point", geometry |-> [lo |-> 1, hi |-> 1]],
      [type |-> "LineString", geometry |-> [lo |-> 2, hi |-> 3]] }

Features(crs, shapes) ==
    [cols |-> {"osmid", "geometry"}, crs |-> crs,
     rows |-> [i \in 1..Len(shapes) |->
                [osmid |-> i, type |-> shapes[i].type,
                 geometry |-> shapes[i].geometry]]]

CallFetchBuildings ==
    /\ call = Idle
    /\ \E d \in DistrictTables
                  \cup {Partition(Metric, AllDistrictCols \ {"geometry"}, Whole(10))},
          m \in 0..MaxBuildings, k \in {WGS84, None},
          failed \in BOOLEAN, module \in HelpersModules,
          second \in {ServiceFailure, Answer(Features(WGS84, <<>>))} :
        \E shapes \in [1..m -> FeatureShapes] :
            LET first == IF failed THEN ServiceFailure
                         ELSE Answer(Features(k, shapes))
            IN  /\ failed => (m = 0 /\ k = None)
                /\ call' = [op |-> "fetch_buildings", districts_gdf |-> d,
                            district_col |-> "bydel",
                            service |-> <<first, second>>, helpers |-> module]
                /\ ret' = fetch_buildings(d, "bydel", <<first, second>>, module)
                /\ inputs' = AfterCall([districts_gdf |-> d], {})

\* Trips with the coordinates of their start: longitudes 1 and 3.
CoordTrips(cols, lons) ==
    [cols |-> cols,
     rows |-> [i \in 1..Len(lons) |->
        [c \in cols |-> [id |-> i, start_lat |-> 0, start_lon |-> lons[i]][c]]]]

CallPointsGdf ==
    /\ call = Idle
    /\ \E n \in 0..MaxTrips, cols \in {{"id", "start_lat", "start_lon"}, {"id", "start_lat"}},
          source_crs \in {EPSG \o Code4326, EPSG \o Code25833, EPSG \o Code99999},
          target_crs \in {epsg \o Code25833, EPSG \o Code4326, EPSG \o Code99999} :
        \E lons \in [1..n -> {1, 3}] :
            /\ call' = [op |-> "points_gdf", trips_df |-> CoordTrips(cols, lons),
                        lat_col |-> "start_lat", lon_col |-> "start_lon",
                        source_crs |-> source_crs, target_crs |-> target_crs]
            /\ ret' = points_gdf(CoordTrips(cols, lons), "start_lat", "start_lon",
                                 source_crs, target_crs)
            /\ inputs' = AfterCall(
                    [trips_df |-> CoordTrips(cols, lons)],
                    points_gdf_written(CoordTrips(cols, lons), "start_lat",
                                       "start_lon", source_crs))

\* Tables as mobilityindicators returns them: the scenario, and two
\* districts with one trip from A to B.
MobilityTables ==
    { mobilityindicators(Scenario, ScenarioTrips, "befolkning_2024", "bydel",
                         "start_district", "end_district").gdf,
      mobilityindicators(Partition(Metric, AllDistrictCols, Whole(10)),
                         TripTable({"start_district", "end_district"},
                                   <<"A">>, <<"B">>),
                         "befolkning_2024", "bydel",
                         "start_district", "end_district").gdf }

CallPlotMobilityIndicators ==
    /\ call = Idle
    /\ \E mobility_gdf \in MobilityTables, district_a \in {"A", "B", "Z"},
          district_b \in {"A", "B", "Z"} :
        /\ call' = [op |-> "plot_mobility_indicators", mobility_gdf |-> mobility_gdf,
                    district_a |-> district_a, district_b |-> district_b]
        /\ ret' = plot_mobility_indicators(mobility_gdf, district_a, district_b)
        /\ inputs' = AfterCall([mobility_gdf |-> mobility_gdf], {})

\* A table as bygningsindikatorer returns it, and the same table with the
\* count and area columns under their English names.
BuildingTables ==
    LET t == bygningsindikatorer(
                Buildings(Metric, {"bydel", "geometry"}, <<"A", "A">>, <<100, 300>>),
                Partition(Metric, AllDistrictCols, Whole(10)), "bydel").gdf
    IN  {t, [t EXCEPT !.cols = (@ \ {"antall_bygninger", "bygning_areal_m2"})
                               \cup {"num_buildings", "building_area_m2"}]}

CallPlotBuildingIndicators ==
    /\ call = Idle
    /\ \E buildingindicators_gdf \in BuildingTables, district_a \in {"A", "B", "Z"},
          district_b \in {"A", "B", "Z"} :
        /\ call' = [op |-> "plot_building_indicators",
                    buildingindicators_gdf |-> buildingindicators_gdf,
                    district_a |-> district_a, district_b |-> district_b]
        /\ ret' = plot_building_indicators(buildingindicators_gdf, district_a,
                                           district_b)
        /\ inputs' = AfterCall([buildingindicators_gdf |-> buildingindicators_gdf], {})

\* A trip from A to B in the morning, one from B to A in the afternoon and
\* one from A to nowhere without a readable time.
TimedTripChoices ==
    { [start_district |-> "A", end_district |-> "B",
       started_at |-> <<"0", "8", ":", "1", "5">>],
      [start_district |-> "B", end_district |-> "A",
       started_at |-> <<"1", "7", ":", "4", "0">>],
      [start_district |-> "A", end_district |-> NaN,
       started_at |-> <<"n", "/", "a">>] }

\* The table of the rows picked, with the columns named.
Picked(cols, picks) ==
    [cols |-> cols,
     rows |-> [i \in 1..Len(picks) |-> [c \in cols |-> picks[i][c]]]]

CallPlotTimeprofile ==
    /\ call = Idle
    /\ \E n \in 0..MaxTrips, district_b \in {"B", "Z"},
          cols \in {{"start_district", "end_district", "started_at"},
                    {"start_district", "end_district"}} :
        \E picks \in [1..n -> TimedTripChoices] :
            /\ call' = [op |-> "plot_timeprofile", trips_df |-> Picked(cols, picks),
                        district_a |-> "A", district_b |-> district_b,
                        start_col |-> "start_district", end_col |-> "end_district",
                        time_column |-> "started_at"]
            /\ ret' = plot_timeprofile(Picked(cols, picks), "A", district_b,
                                       "start_district", "end_district", "started_at")
            /\ inputs' = AfterCall(
                    [trips_df |-> Picked(cols, picks)],
                    timeprofile_written(Picked(cols, picks), "start_district",
                                        "end_district", "started_at"))

CallPlotTimeprofileDirections ==
    /\ call = Idle
    /\ \E n \in 0..MaxTrips, district_b \in {"B", "Z"},
          cols \in {{"start_district", "end_district", "started_at"},
                    {"start_district", "end_district"}} :
        \E picks \in [1..n -> TimedTripChoices] :
            /\ call' = [op |-> "plot_timeprofile_directions",
                        trips_df |-> Picked(cols, picks),
                        district_a |-> "A", district_b |-> district_b,
                        start_col |-> "start_district", end_col |-> "end_district",
                        time_column |-> "started_at"]
            /\ ret' = plot_timeprofile_directions(Picked(cols, picks), "A",
                            district_b, "start_district", "end_district",
                            "started_at")
            /\ inputs' = AfterCall(
                    [trips_df |-> Picked(cols, picks)],
                    timeprofile_written(Picked(cols, picks), "start_district",
                                        "end_district", "started_at"))

\* A house in A, a building without a type in B and a house in no district.
TypedBuildingChoices ==
    { [bydel |-> "A", building |-> "house", geometry |-> [lo |-> 0, hi |-> 100]],
      [bydel |-> "B", building |-> NaN, geometry |-> [lo |-> 0, hi |-> 300]],
      [bydel |-> NaN, building |-> "house", geometry |-> [lo |-> 0, hi |-> 100]] }

CallPlotBuildingtypes ==
    /\ call = Idle
    /\ \E m \in 0..MaxBuildings, cols \in {{"bydel", "building", "geometry"}, {"bydel", "geometry"}},
          district_a \in {"A", "Z"}, district_b \in {"A", "B", "Z"},
          types \in {[given |-> FALSE, names |-> {}],
                     [given |-> TRUE, names |-> {"garage"}],
                     [given |-> TRUE, names |-> {"house", "garage"}]},
          normalize \in BOOLEAN :
        \E picks \in [1..m -> TypedBuildingChoices] :
            LET buildings_gdf == Picked(cols, picks) @@ [crs |-> Metric]
            IN  /\ call' = [op |-> "plot_buildingtypes", buildings_gdf |-> buildings_gdf,
                            district_a |-> district_a, district_b |-> district_b,
                            district_col |-> "bydel", type_col |-> "building",
                            types |-> types, normalize |-> normalize]
                /\ ret' = plot_buildingtypes(buildings_gdf, district_a, district_b,
                                             "bydel", "building", types, normalize)
                /\ inputs' = AfterCall([buildings_gdf |-> buildings_gdf],
                                plot_buildingtypes_written(buildings_gdf, ret'))

\* Tables indexed by the district name, as mobilityindicators returns them,
\* with and without a CRS.
MapTables ==
    { [t EXCEPT !.crs = k] @@ [index_name |-> "bydel"] :
        t \in MobilityTables, k \in {Metric, None} }

CallInteractiveMap ==
    /\ call = Idle
    /\ \E mobility_gdf \in MapTables, m \in 0..MaxBuildings, k \in {Metric, None},
          cols \in {{"bydel", "building", "geometry"}, {"bydel", "geometry"}},
          district_a \in {"A", "Z"}, district_b \in {"B", "Z"},
          choropleth_col \in {"total_trips_per_km2", "trips"},
          name_col \in {"bydel", "navn"} :
        \E picks \in [1..m -> TypedBuildingChoices] :
            LET buildings_gdf == Picked(cols, picks) @@ [crs |-> k]
            IN  /\ call' = [op |-> "interactive_map", mobility_gdf |-> mobility_gdf,
                            buildings_gdf |-> buildings_gdf,
                            district_a |-> district_a, district_b |-> district_b,
                            choropleth_col |-> choropleth_col, name_col |-> name_col,
                            building_type_col |-> "building",
                            building_district_col |-> "bydel"]
                /\ ret' = interactive_map(mobility_gdf, buildings_gdf, district_a,
                                          district_b, choropleth_col, name_col,
                                          "building", "bydel")
                /\ inputs' = AfterCall(
                        [mobility_gdf |-> mobility_gdf, buildings_gdf |-> buildings_gdf],
                        interactive_map_written(buildings_gdf, ret'))

\* Lines of delimited text.
CsvLines ==
    { <<"a", ",", "b">>, <<"1", ",", "2">>, <<"3", ",", "x">>,
      <<"4", ",", "5", ",", "6">>, <<"7", ";", "8">> }

CallCsvToDf ==
    /\ call = Idle
    /\ \E exists \in BOOLEAN, n \in 0..3, sep \in {",", ";"} :
        \E text \in [1..n -> CsvLines] :
            /\ exists \/ n = 0
            /\ call' = [op |-> "csv_to_df",
                        file |-> [exists |-> exists, text |-> text], sep |-> sep]
            /\ ret' = csv_to_df([exists |-> exists, text |-> text], sep)
            /\ inputs' = <<>>

CallCsvTilDf ==
    /\ call = Idle
    /\ \E exists \in BOOLEAN, n \in 0..3, sep \in {",", ";"} :
        \E text \in [1..n -> CsvLines] :
            /\ exists \/ n = 0
            /\ call' = [op |-> "csv_til_df",
                        file |-> [exists |-> exists, text |-> text], sep |-> sep]
            /\ ret' = csv_til_df([exists |-> exists, text |-> text], sep)
            /\ inputs' = <<>>

Return ==
    /\ call # Idle
    /\ call' = Idle
    /\ ret' = NoRet
    /\ inputs' = <<>>

Next == CallCRS \/ CallAddDistrict \/ CallMobilityindicators
        \/ CallBuildingindicators \/ CallBygningsindikatorer
        \/ CallDataToGdf \/ CallDataTilGdf \/ CallFetchBuildings
        \/ CallPointsGdf \/ CallPlotMobilityIndicators
        \/ CallPlotBuildingIndicators \/ CallPlotTimeprofile
        \/ CallPlotTimeprofileDirections \/ CallPlotBuildingtypes
        \/ CallInteractiveMap \/ CallCsvToDf \/ CallCsvTilDf \/ Return

Spec == Init /\ [][Next]_vars

(***************************************************************************)
(* Properties.                                                             *)
(***************************************************************************)
\* Position in metres of a raw coordinate tagged with a CRS.
Metres(crs, x) == IF crs.code = Code4326 THEN 100000 * x ELSE x

\* C1: whenever CRS returns without error, the returned dataset carries the
\* CRS named by the trimmed, upper-cased target_crs, whatever the source CRS
\* (unset, equal to the target, different from it) and the flag.
C1_ReturnedCrsIsTarget ==
    (call.op = "CRS" /\ ret.status = "ok") =>
        /\ ret.gdf.crs.set
        /\ EPSG \o ret.gdf.crs.code = Upper(Strip(call.target_crs.val))

C1_Witness ==
    /\ call.op = "CRS"
    /\ ret.status = "ok"
    /\ call.gdf.crs = None
    /\ call.wgs84_missing
    /\ call.target_crs = PyStr(<<" ">> \o epsg \o Code25833 \o <<" ">>)
    /\ Len(call.gdf.rows) = 2
    /\ ret.gdf.crs.code = Code25833

\* The districts whose interior holds the point, both placed in metres.
Holding(point_crs, p, districts_gdf) ==
    { j \in 1..Len(districts_gdf.rows) :
        LET g == districts_gdf.rows[j].geometry
        IN  /\ Metres(districts_gdf.crs, g.lo) < Metres(point_crs, p.lo)
            /\ Metres(point_crs, p.lo) < Metres(districts_gdf.crs, g.hi) }

AddDistrictWellFormed ==
    /\ call.op = "add_district"
    /\ call.district_col \in call.districts_gdf.cols
    /\ "geometry" \in call.districts_gdf.cols
    /\ call.districts_gdf.crs.set
    /\ StartsWith(Upper(call.districts_gdf.crs.srs), EPSG)
    /\ call.start_gdf.crs.set
    /\ call.end_gdf.crs.set
    /\ Len(call.start_gdf.rows) = Len(call.trips_df.rows)
    /\ Len(call.end_gdf.rows) = Len(call.trips_df.rows)

NoPointInTwoDistricts ==
    \A g \in {call.start_gdf, call.end_gdf} : \A i \in 1..Len(g.rows) :
        Cardinality(Holding(g.crs, g.rows[i].geometry, call.districts_gdf)) <= 1

\* C2: add_district on N trips with N start and N end points returns a
\* table of exactly N rows, however many points lie outside every district.
C2_LeftJoinKeepsEveryRow ==
    /\ (call.op = "add_district" /\ ret.status = "ok") =>
            Len(ret.df.rows) = Len(call.trips_df.rows)
    /\ (AddDistrictWellFormed /\ NoPointInTwoDistricts) => ret.status = "ok"

C2_Witness ==
    /\ AddDistrictWellFormed
    /\ ret.status = "ok"
    /\ Len(ret.df.rows) = 2
    /\ \A i \in 1..2 :
        /\ Holding(call.start_gdf.crs, call.start_gdf.rows[i].geometry,
                   call.districts_gdf) = {}
        /\ Holding(call.end_gdf.crs, call.end_gdf.rows[i].geometry,
                   call.districts_gdf) = {}

\* The label the claim gives a point: the name of the district holding it,
\* missing when no district does.
RightLabel(label, point_crs, p, districts_gdf, district_col) ==
    LET holding == Holding(point_crs, p, districts_gdf)
    IN  IF holding = {}
        THEN label = NaN
        ELSE \A j \in holding : label = districts_gdf.rows[j][district_col]

\* C3: row i of the table add_district returns carries the name of the
\* district that strictly contains start (end) point i once the point is in
\* the district CRS, a missing label when no district does or the point only
\* touches a boundary, and the rows are in the order of the trip table.
C3_LabelsAreTheContainingDistrict ==
    (/\ call.op = "add_district"
     /\ ret.status = "ok"
     /\ Len(call.start_gdf.rows) = Len(call.trips_df.rows)
     /\ Len(call.end_gdf.rows) = Len(call.trips_df.rows)) =>
        \A i \in 1..Len(call.trips_df.rows) :
            /\ ret.df.rows[i].id = call.trips_df.rows[i].id
            /\ RightLabel(ret.df.rows[i].start_district, call.start_gdf.crs,
                          call.start_gdf.rows[i].geometry, call.districts_gdf,
                          call.district_col)
            /\ RightLabel(ret.df.rows[i].end_district, call.end_gdf.crs,
                          call.end_gdf.rows[i].geometry, call.districts_gdf,
                          call.district_col)

\* A WGS84 start point on the shared boundary, an end point inside B.
C3_Witness ==
    /\ AddDistrictWellFormed
    /\ ret.status = "ok"
    /\ call.start_gdf.crs = WGS84
    /\ call.districts_gdf.crs = Metric
    /\ Len(ret.df.rows) = 2
    /\ call.start_gdf.rows[1].geometry = Point(2)
    /\ ret.df.rows[1].start_district = NaN
    /\ ret.df.rows[1].end_district = "B"
    /\ ret.df.rows[2].start_district = "A"

IsMobility == call.op = "mobilityindicators"
IsBuilding == call.op \in {"buildingindicators", "bygningsindikatorer"}

\* The number of rows of a table whose column holds the label.
Labelled(df, col, name) ==
    Cardinality({ i \in 1..Len(df.rows) : df.rows[i][col] = name })

\* C4: every district of the district table is a row of the table
\* mobilityindicators returns, indexed by its name, and a district no trip
\* starts (ends) in has trips_started (trips_ended) 0, not a missing value.
C4_EveryDistrictZeroFilled ==
    (IsMobility /\ ret.status = "ok") =>
        /\ Len(ret.gdf.rows) = Len(call.districts_gdf.rows)
        /\ \A j \in 1..Len(call.districts_gdf.rows) :
            LET name == call.districts_gdf.rows[j][call.district_col]
                row == ret.gdf.rows[j]
            IN  /\ row.index = name
                /\ row.trips_started.k = "num"
                /\ row.trips_ended.k = "num"
                /\ Labelled(call.trips_df, call.start_col, name) = 0
                        => row.trips_started = Whole(0)
                /\ Labelled(call.trips_df, call.end_col, name) = 0
                        => row.trips_ended = Whole(0)

C4_Witness ==
    /\ IsMobility
    /\ ret.status = "ok"
    /\ Len(call.trips_df.rows) = 2
    /\ ret.gdf.rows[1].trips_started = Whole(2)
    /\ ret.gdf.rows[1].trips_ended = Whole(0)
    /\ ret.gdf.rows[2].trips_started = Whole(0)
    /\ ret.gdf.rows[2].trips_ended = Whole(0)

\* C5: in every row mobilityindicators returns, total_trips is trips_started
\* plus trips_ended and net_trips is trips_ended minus trips_started.
C5_NetAndTotal ==
    (IsMobility /\ ret.status = "ok") =>
        \A j \in 1..Len(ret.gdf.rows) :
            LET row == ret.gdf.rows[j]
            IN  /\ row.total_trips.k = "num" /\ row.total_trips.d = 1
                /\ row.net_trips.k = "num" /\ row.net_trips.d = 1
                /\ row.total_trips.n = row.trips_started.n + row.trips_ended.n
                /\ row.net_trips.n = row.trips_ended.n - row.trips_started.n

C5_Witness ==
    /\ IsMobility
    /\ ret.status = "ok"
    /\ ret.gdf.rows[1].trips_started = Whole(2)
    /\ ret.gdf.rows[1].trips_ended = Whole(1)
    /\ ret.gdf.rows[1].net_trips = Whole(-1)
    /\ ret.gdf.rows[1].total_trips = Whole(3)

IsMobilityScenario ==
    /\ IsMobility
    /\ call.districts_gdf = Scenario
    /\ call.trips_df = ScenarioTrips

\* C6: for districts A, B, C of 1, 2 and 0.5 km2 with 1000, 2000 and 500
\* inhabitants, five trips from A to B and two from B to C, the rows are
\* A: 5 started, 0 ended, net -5; B: 2, 5, net 3; C: 0, 2, net 2; and the
\* population density of A is 1000 per km2.
C6_MobilityScenario ==
    IsMobilityScenario =>
        /\ ret.status = "ok"
        /\ Len(ret.gdf.rows) = 3
        /\ ret.gdf.rows[1].index = "A"
        /\ ret.gdf.rows[1].trips_started = Whole(5)
        /\ ret.gdf.rows[1].trips_ended = Whole(0)
        /\ ret.gdf.rows[1].net_trips = Whole(-5)
        /\ ret.gdf.rows[1].population_density_km2 = Whole(1000)
        /\ ret.gdf.rows[2].index = "B"
        /\ ret.gdf.rows[2].trips_started = Whole(2)
        /\ ret.gdf.rows[2].trips_ended = Whole(5)
        /\ ret.gdf.rows[2].net_trips = Whole(3)
        /\ ret.gdf.rows[3].index = "C"
        /\ ret.gdf.rows[3].trips_started = Whole(0)
        /\ ret.gdf.rows[3].trips_ended = Whole(2)
        /\ ret.gdf.rows[3].net_trips = Whole(2)

C6_Witness == IsMobilityScenario /\ ret.status = "ok"

\* Two buildings of 100 and 300 m2 labelled A, in the metric CRS.
ScenarioBuildings ==
    Buildings(Metric, {"bydel", "geometry"}, <<"A", "A">>, <<100, 300>>)

BuildingScenarioResult ==
    /\ ret.status = "ok"
    /\ ret.gdf.rows[1].index = "A"
    /\ ret.gdf.rows[1].building_area_m2 = Whole(400)
    /\ ret.gdf.rows[1].buildings_per_km2 = Whole(2)
    /\ ret.gdf.rows[1].built_up_area_percent = [k |-> "num", n |-> 1, d |-> 25]
    /\ ret.gdf.rows[1].avg_building_area_m2 = Whole(200)
    /\ ret.gdf.rows[2].avg_building_area_m2 = Whole(0)

\* C7: buildingindicators on district A of 1 km2 with two buildings of 100
\* and 300 m2 labelled A returns building_area_m2 400, buildings_per_km2 2,
\* built_up_area_percent 0.04 and avg_building_area_m2 200 for A, and
\* avg_building_area_m2 0.0 for a district without buildings.
C7_BuildingScenario ==
    (/\ call.op = "buildingindicators"
     /\ call.districts_gdf = Scenario
     /\ call.buildings_gdf = ScenarioBuildings) => BuildingScenarioResult

\* C8: in the table bygningsindikatorer returns, a district no building is
\* labelled with has 0 buildings, 0 building area and an average of exactly
\* 0.0, and a district with n > 0 buildings has the building area divided by
\* n as its average.
C8_ZeroFilledAverage ==
    (call.op = "bygningsindikatorer" /\ ret.status = "ok") =>
        /\ Len(ret.gdf.rows) = Len(call.districts_gdf.rows)
        /\ \A j \in 1..Len(call.districts_gdf.rows) :
            LET name == call.districts_gdf.rows[j][call.district_col]
                n == Labelled(call.buildings_gdf, call.district_col, name)
                row == ret.gdf.rows[j]
            IN  /\ row.index = name
                /\ row.count = Whole(n)
                /\ row.building_area_m2.k = "num"
                /\ row.avg_building_area_m2.k = "num"
                /\ n = 0 => /\ row.building_area_m2 = Whole(0)
                            /\ row.avg_building_area_m2 = Whole(0)
                /\ n > 0 => row.avg_building_area_m2.n * n * row.building_area_m2.d
                            = row.building_area_m2.n * row.avg_building_area_m2.d

C8_Witness ==
    /\ call.op = "bygningsindikatorer"
    /\ ret.status = "ok"
    /\ ret.gdf.rows[1].count = Whole(2)
    /\ ret.gdf.rows[1].building_area_m2 = Whole(400)
    /\ ret.gdf.rows[1].avg_building_area_m2 = Whole(200)
    /\ ret.gdf.rows[2].count = Whole(0)
    /\ ret.gdf.rows[2].avg_building_area_m2 = Whole(0)

\* The area in m2 of district j of the table handed in, measured in metres.
MetricArea(j) ==
    LET g == call.districts_gdf.rows[j].geometry
    IN  Metres(call.districts_gdf.crs, g.hi) - Metres(call.districts_gdf.crs, g.lo)

\* The summed footprint in m2 of the buildings handed in that carry the label.
RECURSIVE MetricBuildingArea(_, _)
MetricBuildingArea(name, i) ==
    IF i > Len(call.buildings_gdf.rows) THEN 0
    ELSE LET b == call.buildings_gdf.rows[i]
         IN  (IF b[call.district_col] = name
              THEN Metres(call.buildings_gdf.crs, b.geometry.hi)
                   - Metres(call.buildings_gdf.crs, b.geometry.lo)
              ELSE 0) + MetricBuildingArea(name, i + 1)

AreasAreMetric ==
    /\ ret.gdf.crs.code = Code25833
    /\ \A j \in 1..Len(ret.gdf.rows) :
        ret.gdf.rows[j].area_km2 = Frac(MetricArea(j), 1000000)

\* C9 as stated: both aggregators compute every area on geometries brought
\* to EPSG:25833, never on geometries in a geographic CRS.
C9_AllAreasMetric ==
    ((IsMobility \/ IsBuilding) /\ ret.status = "ok") => AreasAreMetric

\* C9 as amended: the building aggregators compute every area on geometries
\* brought to EPSG:25833; mobilityindicators computes area_km2 on the
\* district geometries in the CRS the table arrives in, without reprojecting.
C9_BuildingAreasMetric ==
    /\ (IsBuilding /\ ret.status = "ok") =>
        /\ AreasAreMetric
        /\ \A j \in 1..Len(ret.gdf.rows) :
            /\ ret.gdf.rows[j].area_m2 = Whole(MetricArea(j))
            /\ ret.gdf.rows[j].building_area_m2
                    = Whole(MetricBuildingArea(ret.gdf.rows[j].index, 1))
            /\ ret.gdf.rows[j].geometry.hi - ret.gdf.rows[j].geometry.lo = MetricArea(j)
    /\ (IsMobility /\ ret.status = "ok") =>
        /\ ret.gdf.crs = call.districts_gdf.crs
        /\ \A j \in 1..Len(ret.gdf.rows) :
            LET g == call.districts_gdf.rows[j].geometry
            IN  /\ ret.gdf.rows[j].geometry = g
                /\ ret.gdf.rows[j].area_km2 = Frac(g.hi - g.lo, 1000000)

\* mobilityindicators on a district table in EPSG:4326: A spans 2 degrees,
\* which is 200000 m, and gets an area_km2 of 2 / 1000000.
C9_Witness ==
    /\ IsMobility
    /\ ret.status = "ok"
    /\ call.districts_gdf.crs = WGS84
    /\ MetricArea(1) = 200000
    /\ ret.gdf.rows[1].area_km2 = Frac(2, 1000000)

\* C10: given a district table with a set CRS, mobilityindicators raises
\* KeyError when trips_df lacks start_col or end_col or districts_gdf lacks
\* district_col or population_col, and buildingindicators raises KeyError
\* when district_col is absent from the building or the district table.
C10_MissingColumnIsKeyError ==
    /\ (/\ IsMobility
        /\ call.districts_gdf.crs.set
        /\ \/ call.start_col \notin call.trips_df.cols
           \/ call.end_col \notin call.trips_df.cols
           \/ call.district_col \notin call.districts_gdf.cols
           \/ call.population_col \notin call.districts_gdf.cols)
            => ret.status = "KeyError"
    /\ (/\ call.op = "buildingindicators"
        /\ \/ call.district_col \notin call.buildings_gdf.cols
           \/ call.district_col \notin call.districts_gdf.cols)
            => ret.status = "KeyError"

\* C12: a dataset whose CRS text equals the target (upper-cased, the target
\* trimmed) comes back with the same rows and CRS and without to_crs having
\* run; and applying CRS with the same target to a result of CRS returns
\* that result again, so CRS(CRS(g, t), t) = CRS(g, t).
C12_SameCrsIsCopiedAndIdempotent ==
    (call.op = "CRS" /\ "geometry" \in call.gdf.cols
        /\ TargetIsValid(call.target_crs)) =>
        /\ (/\ call.gdf.crs.set
            /\ Upper(StrCrs(call.gdf.crs)) = Upper(Strip(call.target_crs.val)))
                => ret = Ok(call.gdf)
        /\ ret.status = "ok" =>
                CRS(ret.gdf, call.target_crs, call.wgs84_missing) = Ok(ret.gdf)

\* A table tagged "epsg:25833" asked for " epsg:25833 " comes back as it is.
C12_Witness ==
    /\ call.op = "CRS"
    /\ call.gdf.crs = CrsObj(Code25833, epsg \o Code25833)
    /\ call.target_crs = PyStr(<<" ">> \o epsg \o Code25833 \o <<" ">>)
    /\ Len(call.gdf.rows) = 2
    /\ ret = Ok(call.gdf)
    /\ CRS(ret.gdf, call.target_crs, FALSE) = ret

Digits == {"0", "1", "2", "3", "4", "5", "6", "7", "8", "9"}

\* A string that reads "EPSG:<digits>" once trimmed and upper-cased.
WellFormedCode(target_crs) ==
    /\ IsStr(target_crs)
    /\ LET t == Upper(Strip(target_crs.val))
       IN  /\ StartsWith(t, EPSG)
           /\ Len(t) > Len(EPSG)
           /\ \A i \in (Len(EPSG) + 1)..Len(t) : t[i] \in Digits

\* C13: for a table with a geometry column, every target_crs that is not a
\* string of the form "EPSG:<digits>" (trimmed, upper-cased) makes CRS raise
\* the invalid-code error, before the source CRS is looked at and before any
\* reprojection is tried.
C13_MalformedTargetRejectedAtOnce ==
    (call.op = "CRS" /\ "geometry" \in call.gdf.cols
        /\ ~WellFormedCode(call.target_crs)) =>
            ret = Raise("ValueError", "target_crs")

\* C14: for a table without a CRS and a target that passes the validation,
\* CRS with the flag false raises the missing-CRS error and returns no table;
\* with the flag true the outcome is that of the same rows tagged EPSG:4326
\* and normalised to the target, so a returned point lies where its
\* coordinates read as degrees put it and is unchanged for target EPSG:4326.
C14_UnsetCrsRaisesOrIsWgs84 ==
    (call.op = "CRS" /\ "geometry" \in call.gdf.cols
        /\ TargetIsValid(call.target_crs) /\ call.gdf.crs = None) =>
        /\ ~call.wgs84_missing => ret = Raise("ValueError", "missing CRS")
        /\ call.wgs84_missing =>
            /\ ret = CRS([call.gdf EXCEPT !.crs = WGS84], call.target_crs, TRUE)
            /\ ret.status = "ok" =>
                /\ Len(ret.gdf.rows) = Len(call.gdf.rows)
                /\ \A i \in 1..Len(ret.gdf.rows) :
                    Metres(ret.gdf.crs, ret.gdf.rows[i].geometry.lo)
                        = Metres(WGS84, call.gdf.rows[i].geometry.lo)
                /\ ret.gdf.crs.code = Code4326 => ret.gdf.rows = call.gdf.rows

\* Untagged points at 1 and 3 asked for in EPSG:25833 come back at 100000
\* and 300000 metres.
C14_Witness ==
    /\ call.op = "CRS"
    /\ call.gdf.crs = None
    /\ call.wgs84_missing
    /\ call.target_crs = PyStr(EPSG \o Code25833)
    /\ Len(call.gdf.rows) = 2
    /\ ret.status = "ok"
    /\ ret.gdf.crs.code = Code25833
    /\ ret.gdf.rows[2].geometry = Point(300000)

\* C15: add_district raises KeyError when the district table lacks the
\* district column and ValueError when the table has the column and no CRS;
\* in both cases no spatial join has run.
C15_MissingColumnOrUnsetCrs ==
    call.op = "add_district" =>
        /\ call.district_col \notin call.districts_gdf.cols =>
                (ret.status = "KeyError" /\ ret.joins = <<>>)
        /\ (/\ call.district_col \in call.districts_gdf.cols
            /\ call.districts_gdf.crs = None) =>
                (ret.status = "ValueError" /\ ret.joins = <<>>)

\* A district table with the column and without a CRS: str(None) is refused
\* as a target code.
C15_Witness ==
    /\ call.op = "add_district"
    /\ call.district_col \in call.districts_gdf.cols
    /\ call.districts_gdf.crs = None
    /\ Len(call.start_gdf.rows) = 1
    /\ ret.status = "ValueError"
    /\ ret.what = "target_crs"
    /\ ret.joins = <<>>

\* C15 as stated: KeyError both for the missing district column and for the
\* unset CRS of the district table, before any join.
C15_BothAreKeyError ==
    (/\ call.op = "add_district"
     /\ \/ call.district_col \notin call.districts_gdf.cols
        \/ call.districts_gdf.crs = None) =>
            (ret.status = "KeyError" /\ ret.joins = <<>>)

\* The sum of a count column over the rows from i on.
RECURSIVE ColumnTotal(_, _, _)
ColumnTotal(rows, col, i) ==
    IF i > Len(rows) THEN 0 ELSE rows[i][col].n + ColumnTotal(rows, col, i + 1)

\* The trips whose label in a column names a district of the district table.
TripsNaming(col) ==
    LET names == { call.districts_gdf.rows[j][call.district_col] :
                    j \in 1..Len(call.districts_gdf.rows) }
    IN  { i \in 1..Len(call.trips_df.rows) : call.trips_df.rows[i][col] \in names }

\* C18: trips_started summed over the rows mobilityindicators returns is the
\* number of trips whose start label names a district of the table, and
\* likewise trips_ended: a trip with a missing or unknown label is counted
\* for no district; and a missing label makes no call raise: a district
\* table with a CRS rendered "EPSG:<code>" and all columns present returns.
C18_MissingLabelsCountedNowhere ==
    /\ (IsMobility /\ ret.status = "ok") =>
        /\ \A j \in 1..Len(ret.gdf.rows) :
                ret.gdf.rows[j].trips_started.k = "num"
                    /\ ret.gdf.rows[j].trips_started.d = 1
                    /\ ret.gdf.rows[j].trips_ended.k = "num"
                    /\ ret.gdf.rows[j].trips_ended.d = 1
        /\ ColumnTotal(ret.gdf.rows, "trips_started", 1)
                = Cardinality(TripsNaming(call.start_col))
        /\ ColumnTotal(ret.gdf.rows, "trips_ended", 1)
                = Cardinality(TripsNaming(call.end_col))
    /\ (/\ IsMobility
        /\ call.districts_gdf.crs.set
        /\ StartsWith(Upper(call.districts_gdf.crs.srs), EPSG)
        /\ {call.district_col, call.population_col, "geometry"}
                \subseteq call.districts_gdf.cols
        /\ {call.start_col, call.end_col} \subseteq call.trips_df.cols)
            => ret.status = "ok"

\* Two trips, one starting in A and ending nowhere, one starting nowhere
\* and ending in B: one start and one end are counted.
C18_Witness ==
    /\ IsMobility
    /\ ret.status = "ok"
    /\ Len(call.trips_df.rows) = 2
    /\ call.trips_df.rows[1] = Trip("A", NaN)
    /\ call.trips_df.rows[2] = Trip(NaN, "B")
    /\ ColumnTotal(ret.gdf.rows, "trips_started", 1) = 1
    /\ ColumnTotal(ret.gdf.rows, "trips_ended", 1) = 1

\* Two outcomes are alike: the same table, or the same kind of error.
SameOutcome(en, no) == en.status = no.status /\ en.gdf = no.gdf

\* C16: on the same input the English and the Norwegian function of a pair
\* return the same table or raise the same kind of error: the building
\* aggregators buildingindicators and bygningsindikatorer, and the readers
\* data_to_gdf and data_til_gdf under one import of the helpers module.
C16_EnglishEqualsNorwegian ==
    /\ call.op = "buildingindicators" =>
            SameOutcome(ret, bygningsindikatorer(call.buildings_gdf,
                                 call.districts_gdf, call.district_col))
    /\ call.op = "data_to_gdf" =>
            SameOutcome(ret, data_til_gdf(call.file, call.target_crs, call.helpers))

IsReader == call.op \in {"data_to_gdf", "data_til_gdf"}

\* C17: data_to_gdf and data_til_gdf on an existing, readable geometry file
\* return a table in the target CRS, whether the file carries a CRS or not:
\* the call of the CRS helper with the reader's keyword arguments succeeds.
C17_ReaderReturnsTargetCrs ==
    (/\ IsReader
     /\ call.file.exists
     /\ call.file.readable
     /\ IsStr(call.target_crs)
     /\ CanParse(Upper(Strip(call.target_crs.val)))) =>
        /\ ret.status = "ok"
        /\ EPSG \o ret.gdf.crs.code = Upper(Strip(call.target_crs.val))

IsFetch == call.op = "fetch_buildings"

\* C19: every row fetch_buildings returns is a Polygon or MultiPolygon in
\* EPSG:25833, lying where the service placed it; every polygonal feature
\* the service returned is a row of the result, also one within no district,
\* whose label is missing; and no other feature is.
C19_PolygonsOnlyAndAll ==
    (IsFetch /\ ret.status = "ok") =>
        LET features == call.service[1].features
        IN  /\ ret.gdf.crs.set
            /\ ret.gdf.crs.code = Code25833
            /\ \A j \in 1..Len(ret.gdf.rows) :
                /\ ret.gdf.rows[j].type \in {"Polygon", "MultiPolygon"}
                /\ \E i \in 1..Len(features.rows) :
                    /\ features.rows[i].osmid = ret.gdf.rows[j].osmid
                    /\ features.rows[i].type = ret.gdf.rows[j].type
                    /\ ret.gdf.rows[j].geometry.lo
                            = Metres(WGS84, features.rows[i].geometry.lo)
                    /\ ret.gdf.rows[j].geometry.hi
                            = Metres(WGS84, features.rows[i].geometry.hi)
            /\ \A i \in 1..Len(features.rows) :
                features.rows[i].type \in {"Polygon", "MultiPolygon"} =>
                    \E j \in 1..Len(ret.gdf.rows) :
                        ret.gdf.rows[j].osmid = features.rows[i].osmid

\* A multipolygon across the boundary of A and B and a point: the result is
\* the multipolygon alone, in metres, with a missing district.
C19_Witness ==
    /\ IsFetch
    /\ ret.status = "ok"
    /\ call.districts_gdf = Partition(WGS84, AllDistrictCols, Whole(10))
    /\ Len(call.service[1].features.rows) = 2
    /\ call.service[1].features.rows[1].type = "Point"
    /\ call.service[1].features.rows[2].type = "MultiPolygon"
    /\ Len(ret.gdf.rows) = 1
    /\ ret.gdf.rows[1].osmid = 2
    /\ ret.gdf.rows[1].geometry = [lo |-> 100000, hi |-> 300000]
    /\ ret.gdf.rows[1].bydel = NaN

\* C20: an invocation of fetch_buildings sends at most one query to the
\* feature service; when that query fails the failure is the outcome of the
\* invocation, no second query is sent and no table is returned.
C20_OneQueryNoRetry ==
    IsFetch =>
        /\ ret.queries <= 1
        /\ (ret.queries >= 1 /\ call.service[1].failed) =>
                ret = WithQueries(Raise("ServiceError", "features_from_place"), 1)

\* The first query fails and a second one would have been answered.
C20_Witness ==
    /\ IsFetch
    /\ call.service[1].failed
    /\ ~call.service[2].failed
    /\ ret.queries = 1
    /\ ret.status = "ServiceError"
    /\ ret.gdf = NoTable

\* C11: after a call, whether it returned or raised, every table the caller
\* passed has the rows, columns, values and CRS it had before the call.
C11_InputsUnchanged ==
    call.op # "none" =>
        \A name \in DOMAIN inputs : inputs[name] = call[name]

\* add_district returned a table with the two label columns, and the
\* caller's trips_df is without them.
C11_Witness ==
    /\ call.op = "add_district"
    /\ ret.status = "ok"
    /\ Len(call.trips_df.rows) = 2
    /\ "start_district" \in ret.df.cols
    /\ DOMAIN inputs = {"trips_df", "start_gdf", "end_gdf", "districts_gdf"}
    /\ inputs.trips_df = call.trips_df
    /\ "start_district" \notin inputs.trips_df.cols

\* The code of a CRS text "EPSG:<code>".
CodeOf(text) == SubSeq(text, Len(EPSG) + 1, Len(text))

\* C21: when points_gdf returns, the result has one row per row of trips_df
\* in the order of trips_df: row i carries the values of the columns of input
\* row i and the point built from the coordinates of input row i, given in
\* source_crs and transformed to target_crs, the CRS of the result.
C21_OneRowPerInputRowInOrder ==
    (call.op = "points_gdf" /\ ret.status = "ok") =>
        /\ Len(ret.gdf.rows) = Len(call.trips_df.rows)
        /\ ret.gdf.crs.code = CodeOf(call.target_crs)
        /\ \A i \in 1..Len(call.trips_df.rows) :
            /\ \A c \in call.trips_df.cols :
                    ret.gdf.rows[i][c] = call.trips_df.rows[i][c]
            /\ ret.gdf.rows[i].geometry.lo
                    = Transform(CodeOf(call.source_crs), CodeOf(call.target_crs),
                                call.trips_df.rows[i][call.lon_col])
            /\ ret.gdf.rows[i].geometry.hi = ret.gdf.rows[i].geometry.lo

\* Two trips at longitudes 3 and 1 in degrees: the points of the result are
\* at 300000 and 100000 metres, in that order.
C21_Witness ==
    /\ call.op = "points_gdf"
    /\ ret.status = "ok"
    /\ call.source_crs = EPSG \o Code4326
    /\ CodeOf(call.target_crs) = Code25833
    /\ Len(call.trips_df.rows) = 2
    /\ call.trips_df.rows[1].start_lon = 3
    /\ call.trips_df.rows[2].start_lon = 1
    /\ ret.gdf.rows[1].id = 1
    /\ ret.gdf.rows[1].geometry.lo = 300000
    /\ ret.gdf.rows[2].id = 2
    /\ ret.gdf.rows[2].geometry.lo = 100000

\* The presentation operations that compare two districts.
ComparesDistricts ==
    call.op \in {"plot_mobility_indicators", "plot_building_indicators",
                 "plot_buildingtypes", "interactive_map"}

\* The district names the table compared by the call holds: the index of an
\* indicator table, the district column of a building table, and for the map
\* the name column of the mobility table or the index carrying that name.
NamesCompared ==
    CASE call.op = "plot_mobility_indicators" ->
            { call.mobility_gdf.rows[i].index :
                i \in 1..Len(call.mobility_gdf.rows) }
      [] call.op = "plot_building_indicators" ->
            { call.buildingindicators_gdf.rows[i].index :
                i \in 1..Len(call.buildingindicators_gdf.rows) }
      [] call.op = "plot_buildingtypes" ->
            IF call.district_col \in call.buildings_gdf.cols
            THEN { call.buildings_gdf.rows[i][call.district_col] :
                    i \in 1..Len(call.buildings_gdf.rows) }
            ELSE {}
      [] call.op = "interactive_map" ->
            IF call.name_col \in call.mobility_gdf.cols
            THEN { call.mobility_gdf.rows[i][call.name_col] :
                    i \in 1..Len(call.mobility_gdf.rows) }
            ELSE IF call.mobility_gdf.index_name = call.name_col
            THEN { call.mobility_gdf.rows[i].index :
                    i \in 1..Len(call.mobility_gdf.rows) }
            ELSE {}
      [] OTHER -> {}

\* C22: a presentation operation comparing two districts raises KeyError and
\* returns no chart or map when the first or the second named district is
\* absent from the table it compares.
C22_AbsentDistrictIsKeyError ==
    (ComparesDistricts /\ ~({call.district_a, call.district_b} \subseteq NamesCompared)) =>
        /\ ret.status = "KeyError"
        /\ ret.fig = <<>>

\* A map of A and Z over a mobility table indexed by the districts A and B:
\* the first district is in the table and the second is not.
C22_Witness ==
    /\ call.op = "interactive_map"
    /\ call.name_col = "bydel"
    /\ call.district_a \in NamesCompared
    /\ call.district_b = "Z"
    /\ "Z" \notin NamesCompared
    /\ ret.status = "KeyError"
    /\ ret.what = "Z"

\* The call of interactive_map passes every check made before the building
\* table is filtered to the two districts.
ReachesBuildingFilter ==
    /\ call.op = "interactive_map"
    /\ {call.district_a, call.district_b} \subseteq NamesCompared
    /\ call.choropleth_col \in call.mobility_gdf.cols
    /\ {call.building_district_col, call.building_type_col}
            \subseteq call.buildings_gdf.cols

\* The buildings of the building table lying in one of the two districts.
BuildingsSelected ==
    { i \in 1..Len(call.buildings_gdf.rows) :
        call.buildings_gdf.rows[i][call.building_district_col]
            \in {call.district_a, call.district_b} }

\* C23: interactive_map raises ValueError and returns no map when no building
\* of the building table lies in the two selected districts, and a map it
\* returns has at least one building in its building layer.
C23_NoBuildingsIsValueError ==
    /\ (ReachesBuildingFilter /\ BuildingsSelected = {}) =>
            /\ ret.status = "ValueError"
            /\ ret.what = "buildings"
            /\ ret.fig = <<>>
    /\ (call.op = "interactive_map" /\ ret.status = "ok") =>
            Len(ret.fig.buildings) > 0

\* The building table holds buildings, none of them in A or B.
C23_Witness ==
    /\ ReachesBuildingFilter
    /\ {call.district_a, call.district_b} = {"A", "B"}
    /\ Len(call.buildings_gdf.rows) = 2
    /\ BuildingsSelected = {}
    /\ ret.status = "ValueError"
    /\ ret.fig = <<>>

\* CRS reaches its reprojection: the geometry column is there, the target
\* has the EPSG prefix, the source CRS is set or assumed, and its text
\* differs from the normalised target.
CrsAttemptsTransform ==
    /\ call.op = "CRS"
    /\ "geometry" \in call.gdf.cols
    /\ call.target_crs.kind = "str"
    /\ StartsWith(Upper(Strip(call.target_crs.val)), EPSG)
    /\ call.gdf.crs # None \/ call.wgs84_missing
    /\ (IF call.gdf.crs = None THEN EPSG \o Code4326 ELSE Upper(call.gdf.crs.srs))
            # Upper(Strip(call.target_crs.val))

\* points_gdf reaches its reprojection: the coordinate columns are there and
\* the point table could be built with source_crs.
PointsAttemptTransform ==
    /\ call.op = "points_gdf"
    /\ {call.lat_col, call.lon_col} \subseteq call.trips_df.cols
    /\ CodeOf(call.source_crs) \in KnownCodes

\* C24: when CRS or points_gdf reaches its reprojection and the target names
\* no CRS the transform can reach, the outcome is a ValueError naming the
\* target (and for CRS the source before it), and no table is returned.
C24_TransformFailureIsWrapped ==
    /\ (CrsAttemptsTransform
            /\ CodeOf(Upper(Strip(call.target_crs.val))) \notin KnownCodes) =>
            /\ ret.status = "ValueError"
            /\ ret.what = "transform"
            /\ ret.names = << IF call.gdf.crs = None THEN EPSG \o Code4326
                              ELSE Upper(call.gdf.crs.srs),
                              Upper(Strip(call.target_crs.val)) >>
            /\ ret.gdf = NoTable
    /\ (PointsAttemptTransform /\ CodeOf(call.target_crs) \notin KnownCodes) =>
            /\ ret.status = "ValueError"
            /\ ret.what = "transform"
            /\ ret.names = << call.target_crs >>
            /\ ret.gdf = NoTable

\* A table in EPSG:4326 and the target EPSG:99999.
C24_Witness ==
    /\ CrsAttemptsTransform
    /\ call.gdf.crs # None
    /\ Len(call.gdf.rows) > 0
    /\ ret.status = "ValueError"
    /\ ret.names = << EPSG \o Code4326, EPSG \o Code99999 >>
    /\ ret.gdf = NoTable

IsCsvReader == call.op \in {"csv_to_df", "csv_til_df"}

\* C25 as stated: csv_to_df raises FileNotFoundError without parsing when the
\* path does not exist and IOError when the text of an existing file cannot
\* be parsed, and a handler of either kind never receives the other failure.
C25_KindsNeverHandledAsEachOther ==
    IsCsvReader =>
        /\ ~call.file.exists =>
                ret.status = "FileNotFoundError" /\ ret.parses = 0
        /\ (call.file.exists /\ read_csv(call.file.text, call.sep).failed) =>
                ret.status = "IOError"
        /\ ret.status = "FileNotFoundError" => ~Catches("IOError", ret.status)
        /\ ret.status = "IOError" => ~Catches("FileNotFoundError", ret.status)

\* C25 amended: the two failures are raised as stated and are instances of
\* different classes; a handler of FileNotFoundError never receives the read
\* failure, while a handler of IOError, which is OSError, also receives the
\* not-found failure.
C25_KindsDistinctOneWay ==
    IsCsvReader =>
        /\ ~call.file.exists =>
                ret.status = "FileNotFoundError" /\ ret.parses = 0
        /\ (call.file.exists /\ read_csv(call.file.text, call.sep).failed) =>
                ret.status = "IOError" /\ ret.parses = 1
        /\ ret.status = "FileNotFoundError" =>
                /\ ExceptionClass(ret.status) # ExceptionClass("IOError")
                /\ Catches("IOError", ret.status)
        /\ ret.status = "IOError" =>
                /\ ExceptionClass(ret.status) # ExceptionClass("FileNotFoundError")
                /\ ~Catches("FileNotFoundError", ret.status)

\* A file whose third line has a field more than its header: the read
\* failure, which a handler of FileNotFoundError does not receive.
C25_Witness ==
    /\ call.op = "csv_to_df"
    /\ call.file.exists
    /\ call.sep = ","
    /\ call.file.text = << <<"a", ",", "b">>, <<"1", ",", "2">>,
                           <<"4", ",", "5", ",", "6">> >>
    /\ ret.status = "IOError"
    /\ ret.parses = 1
    /\ ~Catches("FileNotFoundError", ret.status)

\* C26: every spatial join add_district or fetch_buildings executes has
\* operands with a set CRS, the same for both: the CRS of the district table
\* handed to add_district, and EPSG:25833 in fetch_buildings.
C26_JoinsOnOneSetCrs ==
    call.op \in {"add_district", "fetch_buildings"} =>
        \A k \in 1..Len(ret.joins) :
            /\ ret.joins[k].left # None
            /\ ret.joins[k].right # None
            /\ ret.joins[k].left.code = ret.joins[k].right.code
            /\ ret.joins[k].right.code =
                    IF call.op = "add_district"
                    THEN call.districts_gdf.crs.code
                    ELSE Code25833

\* Points in degrees and districts in metres: both joins of add_district ran
\* on operands in the CRS of the districts.
C26_Witness ==
    /\ call.op = "add_district"
    /\ ret.status = "ok"
    /\ call.start_gdf.crs # None
    /\ call.districts_gdf.crs # None
    /\ call.start_gdf.crs.code # call.districts_gdf.crs.code
    /\ Len(call.trips_df.rows) > 0
    /\ Len(ret.joins) = 2
    /\ ret.joins[1].left.code = call.districts_gdf.crs.code

\* C27: when the district table handed to fetch_buildings lacks the district
\* column or the geometry column, has no CRS, or cannot be brought to
\* EPSG:25833, the call fails and no query was sent to the feature service.
C27_NoQueryBeforeValidation ==
    (/\ IsFetch
     /\ \/ call.district_col \notin call.districts_gdf.cols
        \/ "geometry" \notin call.districts_gdf.cols
        \/ call.districts_gdf.crs = None
        \/ CRS(call.districts_gdf, PyStr(EPSG \o Code25833), FALSE).status # "ok") =>
        /\ ret.status \in {"KeyError", "ValueError"}
        /\ ret.queries = 0
        /\ ret.gdf = NoTable

\* Districts without a CRS, and a service that would have answered.
C27_Witness ==
    /\ IsFetch
    /\ {call.district_col, "geometry"} \subseteq call.districts_gdf.cols
    /\ call.districts_gdf.crs = None
    /\ ~call.service[1].failed
    /\ Len(call.service[1].features.rows) > 0
    /\ ret.status = "ValueError"
    /\ ret.what = "missing CRS"
    /\ ret.queries = 0

\* The label column of row i names a district holding the point of row i of
\* the point table, and is missing when no district holds it.
OwnLabel(i, col, points) ==
    LET holding == Holding(points.crs, points.rows[i].geometry,
                           call.districts_gdf)
    IN  IF holding = {}
        THEN ret.df.rows[i][col] = NaN
        ELSE \E j \in holding :
                ret.df.rows[i][col] = call.districts_gdf.rows[j][call.district_col]

\* C28: with one start and one end point per trip, add_district raises and
\* returns no table when a point lies within more than one district, and in
\* a table it returns every row carries labels of its own two points.
C28_NoLabelOfAnotherRow ==
    (/\ call.op = "add_district"
     /\ Len(call.start_gdf.rows) = Len(call.trips_df.rows)
     /\ Len(call.end_gdf.rows) = Len(call.trips_df.rows)) =>
        /\ (AddDistrictWellFormed /\ ~NoPointInTwoDistricts) =>
                /\ ret.status = "ValueError"
                /\ ret.df = NoFrame
        /\ ret.status = "ok" =>
                /\ NoPointInTwoDistricts
                /\ \A i \in 1..Len(call.trips_df.rows) :
                    /\ OwnLabel(i, "start_district", call.start_gdf)
                    /\ OwnLabel(i, "end_district", call.end_gdf)

\* Two trips, the start of the first within both A and B: the join has three
\* rows for two trips and the assignment of the labels is refused.
C28_Witness ==
    /\ AddDistrictWellFormed
    /\ Len(call.trips_df.rows) = 2
    /\ Cardinality(Holding(call.start_gdf.crs, call.start_gdf.rows[1].geometry,
                           call.districts_gdf)) = 2
    /\ Cardinality(Holding(call.start_gdf.crs, call.start_gdf.rows[2].geometry,
                           call.districts_gdf)) = 1
    /\ ret.status = "ValueError"
    /\ ret.what = "start_district"
    /\ Len(ret.joins) = 2
    /\ ret.df = NoFrame

\* C29: in the table mobilityindicators returns, the population and the
\* population density of every district are the values derived from the
\* district table, a missing population staying missing with a missing
\* density; only the trip counts are zero-filled.
C29_ZeroFillOnlyTripCounts ==
    (IsMobility /\ ret.status = "ok") =>
        \A j \in 1..Len(call.districts_gdf.rows) :
            LET d == call.districts_gdf.rows[j]
            IN  /\ ret.gdf.rows[j].population = d[call.population_col]
                /\ ret.gdf.rows[j].population_density_km2 =
                        FDiv(d[call.population_col],
                             FDiv(Area(d.geometry), Whole(1000000)))

\* C30: for a district table with a geometry column and a set CRS, whatever
\* the text of the CRS, the step CRS(districts_gdf, str(districts_gdf.crs))
\* of add_district and mobilityindicators succeeds and returns the table with
\* its CRS and coordinates as they were; the step fails only for an unset CRS.
C30_SelfNormalisationSucceeds ==
    ((call.op = "add_district" \/ IsMobility)
        /\ "geometry" \in call.districts_gdf.cols) =>
        LET d == call.districts_gdf
            step == CRS(d, PyStr(StrCrs(d.crs)), FALSE)
        IN  /\ d.crs.set => step = Ok(d)
            /\ step.status # "ok" => ~d.crs.set
            /\ (d.crs.set /\ ret.status = "ValueError") => ret.what # "target_crs"

====
